---- MODULE Spec2Model ----
(***************************************************************************)
(* The agent-run streaming relay of backend/agent/api.py                   *)
(* (stream_agent_run.stream_generator and its listener listen_messages),   *)
(* together with the parties that write what it reads: the background      *)
(* worker that appends to the Response Log and publishes on the pub/sub    *)
(* channels, and stop_agent_run.                                           *)
(*                                                                         *)
(* One relay connection is modelled in full.  Every await and every yield  *)
(* of the generator is a separate step, so the worker, stop_agent_run and  *)
(* the listener task interleave with it exactly where the event loop       *)
(* allows.  AuthSpec starts at the arrival of the request, and PairSpec    *)
(* adds a second connection on the same run.                               *)
(***************************************************************************)
EXTENDS Integers, Sequences, FiniteSets, TLC

(***************************************************************************)
(* Bounds of the model.                                                    *)
(***************************************************************************)
\* Most records the worker appends to the Response Log.
MaxLog == 2

\* Messages of other publishers delivered to the relay's subscriptions.
MaxOthers == 2

(***************************************************************************)
(* Values.                                                                 *)
(***************************************************************************)
None == "None"

\* The shapes of record the worker writes: a content event and a terminal
\* status marker.
Kinds == {"text", "completed"}

\* What json.dumps wrote into the list: the serialized text of a record,
\* represented by its shape and its position in the log.
Raw(kind, n) == <<kind, n>>

\* json.loads: the dict a serialized record decodes to.  A content event has
\* no "status" key.
Loads(r) ==
    IF r[1] = "text"
    THEN [type |-> "text", id |-> r[2]]
    ELSE [type |-> "status", status |-> r[1], id |-> r[2]]

\* json.dumps of a decoded record.
Dumps(d) ==
    IF d.type = "status" THEN <<d.status, d.id>> ELSE <<d.type, d.id>>

\* dict.get(key): None when the key is absent.
Get(d, key) == IF key \in DOMAIN d THEN d[key] ELSE None

\* Redis list indices: a negative index counts from the end of the list.
FromStart(list, index) ==
    IF index >= 0 THEN index
    ELSE IF Len(list) + index >= 0 THEN Len(list) + index ELSE 0

\* Lrange with the start index taken as 1-based.
Lrange_OneBased(list, start) == SubSeq(list, FromStart(list, start) + 2, Len(list))

\* redis.lrange(key, start, -1): the records from 0-based index start on.
Lrange(list, start) == SubSeq(list, FromStart(list, start) + 1, Len(list))

\* LogAfterRead taking the records read off the list.
LogAfterRead_Pop(list, start) == SubSeq(list, 1, FromStart(list, start))

\* The list after redis.lrange(key, start, -1): a range read leaves it as
\* it is.
LogAfterRead(list, start) == list

\* [json.loads(r) for r in responses_json]
LoadAll(rs) == [i \in 1..Len(rs) |-> Loads(rs[i])]

TerminalStatuses == {"completed", "failed", "stopped"}

\* IsTerminalStatus with 'completed' missing from the list.
IsTerminalStatus_NoCompleted(response) ==
    /\ Get(response, "type") = "status"
    /\ Get(response, "status") \in {"failed", "stopped"}

\* response.get('type') == 'status' and
\* response.get('status') in ['completed', 'failed', 'stopped']
IsTerminalStatus(response) ==
    /\ Get(response, "type") = "status"
    /\ Get(response, "status") \in TerminalStatuses

\* data in ["STOP", "END_STREAM", "ERROR"]
ControlSignals == {"STOP", "END_STREAM", "ERROR"}

\* last_processed_index = len(initial_responses) - 1
InitialCursor(n) == n - 1

\* NewStartIndex reading from the cursor's record itself.
NewStartIndex_Same(lpi) == lpi

\* new_start_index = last_processed_index + 1
NewStartIndex(lpi) == lpi + 1

\* AdvanceCursor assigning as the replay does instead of adding.
AdvanceCursor_Assign(lpi, num_new) == num_new - 1

\* AdvanceCursor counting one record too many.
AdvanceCursor_OffByOne(lpi, num_new) == lpi + num_new + 1

\* last_processed_index += num_new
AdvanceCursor(lpi, num_new) == lpi + num_new

\* NotRunning taking a missing row for a running run.
NotRunning_MissingRuns(current_status) == current_status \notin {"running", None}

\* current_status != 'running'
NotRunning(current_status) == current_status # "running"

\* The frames yielded.  src tells where the frame came from ("replay" or
\* "refill" for a record of the log, "synth" for a frame the relay makes up);
\* data is the JSON object of the frame (a made-up frame has no record id:
\* 0), message its "message" key when it has one.
RecordFrame(src, response) == [src |-> src, data |-> Dumps(response), message |-> None]
StatusFrame(status) == [src |-> "synth", data |-> <<status, 0>>, message |-> None]
ErrorFrame(message) == [src |-> "synth", data |-> <<"error", 0>>, message |-> message]

\* LivenessFrame reporting a failure for a run that is not running.
LivenessFrame_Failed == StatusFrame("failed")

\* {'type': 'status', 'status': 'completed'} of the liveness check
LivenessFrame == StatusFrame("completed")

\* ControlFrame always reporting a stop.
ControlFrame_Stopped(control_signal) == StatusFrame("stopped")

\* {'type': 'status', 'status': control_signal}
ControlFrame(control_signal) == StatusFrame(control_signal)

\* ListenerErrorFrame carrying the text of the listener's error item.
ListenerErrorFrame_WithData == ErrorFrame("Listener failed")

\* {'type': 'status', 'status': 'error'} for a listener error
ListenerErrorFrame == StatusFrame("error")

\* The exceptions a broker call and json.loads raise.
Exceptions == {"ConnectionError", "JSONDecodeError"}

\* f'Failed to start stream: {e}'
StartErrorMessage(e) ==
    IF e = "JSONDecodeError" THEN "Failed to start stream: JSONDecodeError"
    ELSE "Failed to start stream: ConnectionError"

\* f'Stream failed: {loop_err}'
LoopErrorMessage(loop_err) ==
    IF loop_err = "JSONDecodeError" THEN "Stream failed: JSONDecodeError"
    ELSE "Stream failed: ConnectionError"

\* {'type': 'status', 'status': 'error', 'message': f'Failed to start stream: {e}'}
StartErrorFrame(e) == ErrorFrame(StartErrorMessage(e))

\* LoopErrorFrame without its message, as the listener's error frame is.
LoopErrorFrame_Generic(loop_err) == StatusFrame("error")

\* {'type': 'status', 'status': 'error', 'message': f'Stream failed: {loop_err}'}
LoopErrorFrame(loop_err) == ErrorFrame(LoopErrorMessage(loop_err))

\* YieldsStartError whatever was yielded before.
YieldsStartError_Always(initial_yield_done) == TRUE

\* if not initial_yield_complete: yield the start-up error frame
YieldsStartError(initial_yield_done) == ~initial_yield_done

(***************************************************************************)
(* State.                                                                  *)
(***************************************************************************)
VARIABLES
    \* the stores and the broker
    log,                    \* Response Log: the Redis list of the run
    runStatus,              \* status column of the run's agent_runs row
    respChan,               \* messages buffered for pubsub_response
    ctrlChan,               \* messages buffered for pubsub_control
    \* the writers
    wpc,                    \* position of the background worker
    spc,                    \* position of stop_agent_run
    \* locals of stream_generator
    pc,                     \* position of the generator
    last_processed_index,
    pubsub_response,        \* None, or the state of the handle
    pubsub_control,
    listener_task,          \* None, or the state of the task
    tasks,                  \* pending channel waits of the listener, per channel
    terminate_stream,
    initial_yield_complete,
    initial_responses,
    new_responses,          \* the batch of the latest refill
    yielded,                \* frames yielded of the batch being sent
    control_signal,
    message_queue,
    \* what the client has received
    frames,
    \* observation only
    readLog,                \* the log as it was at the initial read
    totalRead,              \* records read from the log so far
    current_status,         \* result of the status lookup
    mark,                   \* Len(frames) when the latest item was dequeued
    ctrlRecv,               \* the signal the listener got, and Len(frames) then
    exitPath,               \* how the generator reached its finally block
    cleanupTrace,           \* the steps of the finally block that were done
    escaped,                \* an exception left the generator
    \* the request of stream_agent_run
    token,                  \* the token query parameter
    auth_header,            \* the Authorization header
    user_id,                \* the user the request was resolved to
    http_status,            \* 0 until the endpoint has answered
    \* a second connection on the same run
    other_pc,
    other_last_processed_index,
    other_pubsub,           \* its subscriptions
    other_queue,            \* its message queue
    other_frames            \* what its client has received

VARIABLES
    \* publishers other than the worker and stop_agent_run
    others_sent,            \* messages they have published on the run's channels
    \* the instance: its runs, stop_agent_run and cleanup()
    active_runs,            \* the keys active_run:{instance_id}:{agent_run_id}
    statuses,               \* status column of agent_runs, by run
    stop_call,              \* the call of stop_agent_run in progress
    stopTrace,              \* the steps of that call done so far
    update_success,         \* what update_agent_run_status returned to it
    call_published,         \* channels the call has published STOP on
    call_failed,            \* channels on which its publish raised
    stop_calls,             \* the calls of stop_agent_run made so far
    signalled,              \* runs with a STOP published on their global channel
    seen,                   \* the latest status lookup of a relay
    shutdown_pc,            \* position of cleanup()
    running_keys,           \* keys cleanup() has still to handle
    \* the agents table of one account, and the requests writing it
    agents,                 \* by agent id: "absent", "plain" or "default"
    requests                \* by request: what it does and how far it is

storeVars == <<log, runStatus, respChan, ctrlChan, wpc, spc>>
relayVars == <<pc, last_processed_index, pubsub_response, pubsub_control,
               listener_task, tasks, terminate_stream, initial_yield_complete,
               initial_responses, new_responses, yielded, control_signal,
               message_queue, frames>>
obsVars == <<readLog, totalRead, current_status, mark, ctrlRecv,
             exitPath, cleanupTrace, escaped>>
reqVars == <<token, auth_header, user_id, http_status>>
otherVars == <<other_pc, other_last_processed_index, other_pubsub, other_queue,
               other_frames>>
instVars == <<active_runs, statuses, stop_call, stopTrace, update_success,
              call_published, call_failed, stop_calls, signalled, seen,
              shutdown_pc, running_keys>>
agentVars == <<agents, requests>>
sideVars == <<others_sent, instVars, agentVars>>
vars == <<storeVars, relayVars, obsVars, reqVars, otherVars, sideVars>>


\* The two channels of a run, by the last part of their names.
ResponseChannel == "new_response"
ControlChannel == "control"

\* No channel wait is pending.
NoTasks == [channel \in {ResponseChannel, ControlChannel} |-> 0]

\* tasks = [create_task(response_reader.__anext__()),
\*          create_task(control_reader.__anext__())]
FirstTasks == [channel \in {ResponseChannel, ControlChannel} |-> 1]

\* The run and the generator's locals before the generator's first step.
RunInit ==
    /\ log = <<>>
    /\ runStatus = "running"
    /\ respChan = <<>>
    /\ ctrlChan = <<>>
    /\ wpc = "idle"
    /\ spc = "idle"
    /\ last_processed_index = -1
    /\ pubsub_response = None
    /\ pubsub_control = None
    /\ listener_task = None
    /\ tasks = NoTasks
    /\ terminate_stream = FALSE
    /\ initial_yield_complete = FALSE
    /\ initial_responses = <<>>
    /\ new_responses = <<>>
    /\ yielded = 0
    /\ control_signal = None
    /\ message_queue = <<>>
    /\ frames = <<>>
    /\ readLog = <<>>
    /\ totalRead = 0
    /\ current_status = "unfetched"
    /\ mark = 0
    /\ ctrlRecv = [mark |-> -1, data |-> None]
    /\ exitPath = "none"
    /\ cleanupTrace = <<>>
    /\ escaped = FALSE

(***************************************************************************)
(* The request of stream_agent_run: get_user_id_from_stream_auth, then     *)
(* get_agent_run_with_access_check, then the StreamingResponse over        *)
(* stream_generator.                                                       *)
(***************************************************************************)
\* StartsWith comparing the first four characters only.
StartsWith_FirstFour(str, prefix) ==
    Len(str) >= 4 /\ SubSeq(str, 1, 4) = SubSeq(prefix, 1, 4)

\* str.startswith, on strings written as sequences of characters
StartsWith(str, prefix) ==
    Len(str) >= Len(prefix) /\ SubSeq(str, 1, Len(prefix)) = prefix

\* 'user_'
UserPrefix == <<"u", "s", "e", "r", "_">>

\* No user resolved.
NoUser == <<>>

\* The 'sub' claims of the tokens tried: an empty string, an organisation,
\* two users, and a subject that misses the underscore.
Subjects == {<<>>,
             <<"o", "r", "g", "_", "1">>,
             <<"u", "s", "e", "r", "_", "1">>,
             <<"u", "s", "e", "r", "_", "2">>,
             <<"u", "s", "e", "r", "1">>}

\* A token: whether jwt.decode accepts it, whether its payload has a 'sub',
\* and the 'sub'.
UndecodableToken == [decodable |-> FALSE, has_sub |-> FALSE, sub |-> <<>>]
Tokens ==
    {UndecodableToken, [decodable |-> TRUE, has_sub |-> FALSE, sub |-> <<>>]}
    \cup {[decodable |-> TRUE, has_sub |-> TRUE, sub |-> sub] : sub \in Subjects}

\* The token query parameter: absent (None), or a token.
NoToken == [present |-> FALSE, jwt |-> UndecodableToken]
QueryTokens == {NoToken} \cup {[present |-> TRUE, jwt |-> t] : t \in Tokens}

\* The Authorization header: absent, or a scheme and what follows the
\* first space.
NoHeader == [present |-> FALSE, scheme |-> "", jwt |-> UndecodableToken]
Headers ==
    {NoHeader}
    \cup {[present |-> TRUE, scheme |-> "Bearer", jwt |-> t] : t \in Tokens}
    \cup {[present |-> TRUE, scheme |-> "Basic", jwt |-> t] :
             t \in {[decodable |-> TRUE, has_sub |-> TRUE,
                     sub |-> <<"u", "s", "e", "r", "_", "1">>]}}

\* payload = jwt.decode(...); clerk_user_id = payload.get('sub');
\* if clerk_user_id and clerk_user_id.startswith('user_'): return it.
\* An exception of the decoding is passed over.
UserFromToken(jwt) ==
    IF jwt.decodable /\ jwt.has_sub /\ jwt.sub # <<>> /\ StartsWith(jwt.sub, UserPrefix)
    THEN jwt.sub
    ELSE NoUser

\* auth_header and auth_header.startswith('Bearer ')
HasBearer(header) == header.present /\ header.scheme = "Bearer"

\* get_user_id_from_stream_auth: the user and the status it answers with.
GetUserIdFromStreamAuth(query_token, header) ==
    LET from_query == IF query_token.present THEN UserFromToken(query_token.jwt)
                      ELSE NoUser
        from_header == IF HasBearer(header) THEN UserFromToken(header.jwt)
                       ELSE NoUser
    IN  IF from_query # NoUser THEN [status |-> 200, user_id |-> from_query]
        ELSE IF from_header # NoUser THEN [status |-> 200, user_id |-> from_header]
        ELSE [status |-> 401, user_id |-> NoUser]

\* A request that was resolved from its query token.
AuthenticatedRequest ==
    /\ token = [present |-> TRUE,
                jwt |-> [decodable |-> TRUE, has_sub |-> TRUE,
                         sub |-> <<"u", "s", "e", "r", "_", "1">>]]
    /\ auth_header = NoHeader
    /\ user_id = GetUserIdFromStreamAuth(token, auth_header).user_id
    /\ http_status = 200

\* The locals of a second connection's generator, which is at position at
\* ("absent": there is no second connection).
OtherInit(at) ==
    /\ other_pc = at
    /\ other_last_processed_index = -1
    /\ other_pubsub = None
    /\ other_queue = <<>>
    /\ other_frames = <<>>

(***************************************************************************)
(* The instance, the other publishers and the agents table at rest: the    *)
(* relay's specifications leave them as they are here.                     *)
(***************************************************************************)
\* The backend instances; instance_id is the id of this one.
Instances == {"inst_1", "inst_2"}
instance_id == "inst_1"

\* The agent runs.
Runs == {"run_1", "run_2"}

NoCall == [agent_run_id |-> "none", error_message |-> FALSE, by |-> "none"]
NoLookup == [agent_run_id |-> "none", current_status |-> "unfetched",
             after_saved_stop |-> FALSE]

\* No stop_agent_run call and no shutdown has begun.
InstanceIdle ==
    /\ statuses = [run \in Runs |-> "running"]
    /\ stop_call = NoCall
    /\ stopTrace = <<>>
    /\ update_success = FALSE
    /\ call_published = {}
    /\ call_failed = {}
    /\ stop_calls = {}
    /\ signalled = {}
    /\ seen = NoLookup
    /\ shutdown_pc = "up"
    /\ running_keys = <<>>

\* The agents of the account and the requests that write the table.
AgentIds == {"agent_1", "agent_2", "agent_3"}
RequestIds == {"request_1", "request_2"}
NoRequest == [kind |-> "none", agent_id |-> "none", pc |-> "done"]

AgentsIdle ==
    /\ agents = [agent_id \in AgentIds |-> "absent"]
    /\ requests = [r \in RequestIds |-> NoRequest]

SideIdle ==
    /\ others_sent = 0
    /\ active_runs = {}
    /\ InstanceIdle
    /\ AgentsIdle

\* The generator of an accepted request is about to take its first step.
Init ==
    /\ RunInit
    /\ pc = "start"
    /\ AuthenticatedRequest
    /\ OtherInit("absent")
    /\ SideIdle

(***************************************************************************)
(* The broker.  A published message reaches a subscription only while it   *)
(* is subscribed; a message published earlier or later is dropped.         *)
(***************************************************************************)
\* The handle a channel is read from.
HandleOf(channel) == IF channel = ResponseChannel THEN pubsub_response ELSE pubsub_control

Message(channel, data) == [type |-> "message", channel |-> channel, data |-> data]
SubscribeReply(channel) == [type |-> "subscribe", channel |-> channel, data |-> None]

Deliver(chan, handle, msg) ==
    IF handle = "subscribed" THEN Append(chan, msg) ELSE chan

\* The variables of the second connection that a publish leaves alone.
otherLocals == <<other_pc, other_last_processed_index, other_pubsub, other_frames>>

(***************************************************************************)
(* The background worker: appends a record to the Response Log, announces  *)
(* it on the response channel, and, once its last record is a terminal     *)
(* status record, stores the final status and publishes a lifecycle signal *)
(* on the control channel.                                                 *)
(***************************************************************************)
WorkerAppend ==
    /\ wpc = "idle"
    /\ Len(log) < MaxLog
    /\ \E kind \in Kinds : log' = Append(log, Raw(kind, Len(log) + 1))
    /\ wpc' = "announce"
    /\ UNCHANGED <<runStatus, respChan, ctrlChan, spc, relayVars, obsVars>>
    /\ UNCHANGED <<reqVars, sideVars, otherVars>>

WorkerAnnounce ==
    /\ wpc = "announce"
    /\ respChan' = Deliver(respChan, pubsub_response, Message(ResponseChannel, "new"))
    /\ other_queue' = Deliver(other_queue, other_pubsub, Message(ResponseChannel, "new"))
    /\ wpc' = "idle"
    /\ UNCHANGED <<log, runStatus, ctrlChan, spc, relayVars, obsVars>>
    /\ UNCHANGED <<reqVars, sideVars, otherLocals>>

WorkerUpdateStatus ==
    /\ wpc = "idle"
    /\ log # <<>>
    /\ IsTerminalStatus(Loads(log[Len(log)]))
    /\ runStatus' = Loads(log[Len(log)]).status
    /\ wpc' = "signal"
    /\ UNCHANGED <<log, respChan, ctrlChan, spc, relayVars, obsVars>>
    /\ UNCHANGED <<reqVars, sideVars, otherVars>>

WorkerSignal ==
    /\ wpc = "signal"
    /\ \E sig \in {"END_STREAM", "ERROR"} :
          /\ ctrlChan' = Deliver(ctrlChan, pubsub_control, Message(ControlChannel, sig))
          /\ other_queue' = Deliver(other_queue, other_pubsub, Message(ControlChannel, sig))
    /\ wpc' = "done"
    /\ UNCHANGED <<log, runStatus, respChan, spc, relayVars, obsVars>>
    /\ UNCHANGED <<reqVars, sideVars, otherLocals>>

(***************************************************************************)
(* Another publisher on the run's channels: the broker lets any client     *)
(* publish any data.  Only a message that reaches a subscription of the    *)
(* relay is of interest.                                                   *)
(***************************************************************************)
\* Channel and data of messages the listener has no branch for.
Unrecognized == {<<ResponseChannel, "STOP">>, <<ResponseChannel, "ping">>,
                 <<ControlChannel, "new">>}

PublishOther ==
    /\ others_sent < MaxOthers
    /\ \E m \in Unrecognized :
          /\ HandleOf(m[1]) = "subscribed"
          /\ respChan' = IF m[1] = ResponseChannel
                         THEN Deliver(respChan, pubsub_response, Message(m[1], m[2]))
                         ELSE respChan
          /\ ctrlChan' = IF m[1] = ControlChannel
                         THEN Deliver(ctrlChan, pubsub_control, Message(m[1], m[2]))
                         ELSE ctrlChan
    /\ others_sent' = others_sent + 1
    /\ UNCHANGED <<log, runStatus, wpc, spc, relayVars, obsVars>>
    /\ UNCHANGED <<reqVars, otherVars, instVars, agentVars>>

(***************************************************************************)
(* stop_agent_run: store the final status, publish STOP on the run's       *)
(* global control channel, then hand the response list to                  *)
(* _cleanup_redis_response_list.                                           *)
(***************************************************************************)
\* _cleanup_redis_response_list: the list is kept for its retention time;
\* its records stay as written.
CleanupRedisResponseList(list) == list

\* final_status = "failed" if error_message else "stopped"
FinalStatus(error_message) == IF error_message THEN "failed" ELSE "stopped"

StopUpdateStatus ==
    /\ spc = "idle"
    /\ \E error_message \in BOOLEAN :
          runStatus' = FinalStatus(error_message)
    /\ spc' = "publish"
    /\ UNCHANGED <<log, respChan, ctrlChan, wpc, relayVars, obsVars>>
    /\ UNCHANGED <<reqVars, sideVars, otherVars>>

StopPublish ==
    /\ spc = "publish"
    /\ ctrlChan' = Deliver(ctrlChan, pubsub_control, Message(ControlChannel, "STOP"))
    /\ other_queue' = Deliver(other_queue, other_pubsub, Message(ControlChannel, "STOP"))
    /\ log' = CleanupRedisResponseList(log)
    /\ spc' = "done"
    /\ UNCHANGED <<runStatus, respChan, wpc, relayVars, obsVars>>
    /\ UNCHANGED <<reqVars, sideVars, otherLocals>>


(***************************************************************************)
(* The instance: stop_agent_run in full, for any run, as called by the     *)
(* stop endpoint and by cleanup() at shutdown, with the keys               *)
(* active_run:{instance_id}:{agent_run_id} that say which instance handles *)
(* which run.  A key is the pair of its two ids; a control channel is the  *)
(* pair of its run and "global" or an instance id.                         *)
(***************************************************************************)
\* The ways a list returned by redis.keys may be ordered.
Orders(keys) ==
    {order \in [1..Cardinality(keys) -> keys] :
        \A i, j \in 1..Cardinality(keys) : order[i] = order[j] => i = j}

\* KeysOfInstance matching the keys of every instance.
KeysOfInstance_AnyInstance(keys, instance) == keys

\* redis.keys(f"active_run:{instance_id}:*")
KeysOfInstance(keys, instance) == {key \in keys : key[1] = instance}

\* redis.keys(f"active_run:*:{agent_run_id}")
KeysOfRun(keys, agent_run_id) == {key \in keys : key[2] = agent_run_id}

\* f"agent_run:{agent_run_id}:control"
GlobalControlChannel(agent_run_id) == <<agent_run_id, "global">>

\* f"agent_run:{agent_run_id}:control:{instance_id_from_key}"
InstanceControlChannel(key) == <<key[2], key[1]>>

\* StopOrder with the STOP on the global channel sent first.
StopOrder_PublishFirst == <<"publish_global", "update_status", "publish_instances">>

\* The steps of stop_agent_run that write: the status, the STOP on the
\* global channel, the STOPs on the instance channels.
StopOrder == <<"update_status", "publish_global", "publish_instances">>

\* InstancePublished giving up at the first publish that raises.
InstancePublished_UntilFailure(instance_keys, failed) ==
    {InstanceControlChannel(instance_keys[i]) :
        i \in {j \in DOMAIN instance_keys : \A f \in failed : j < f}}

\* for key in instance_keys: try: publish ... except: log.  The channels
\* that got the STOP when the publishes at the positions failed raised.
InstancePublished(instance_keys, failed) ==
    {InstanceControlChannel(instance_keys[i]) : i \in DOMAIN instance_keys \ failed}

\* A call of stop_agent_run begins.
BeginStop(agent_run_id, error_message, by) ==
    LET call == [agent_run_id |-> agent_run_id, error_message |-> error_message,
                 by |-> by]
    IN  /\ stop_call' = call
        /\ stop_calls' = stop_calls \cup {call}
        /\ stopTrace' = <<>>
        /\ update_success' = FALSE
        /\ call_published' = {}
        /\ call_failed' = {}

\* The stop endpoint: await stop_agent_run(agent_run_id), once per run here.
StopRequest ==
    /\ shutdown_pc = "up"
    /\ stop_call = NoCall
    /\ \E agent_run_id \in Runs :
          /\ [agent_run_id |-> agent_run_id, error_message |-> FALSE,
              by |-> "request"] \notin stop_calls
          /\ BeginStop(agent_run_id, FALSE, "request")
    /\ UNCHANGED <<active_runs, statuses, signalled, seen, shutdown_pc, running_keys>>
    /\ UNCHANGED <<storeVars, relayVars, obsVars, reqVars, otherVars, others_sent,
                   agentVars>>

\* update_agent_run_status: the row of the run gets the status and True is
\* returned, or the update fails, the row stays and False is returned.
UpdateAgentRunStatus(table, agent_run_id, status, ok) ==
    IF ok THEN [table EXCEPT ![agent_run_id] = status] ELSE table

\* update_success = await update_agent_run_status(client, agent_run_id,
\*                                                final_status, ...)
StopUpdate(agent_run_id, error_message) ==
    /\ \E ok \in BOOLEAN :
          /\ update_success' = ok
          /\ statuses' = UpdateAgentRunStatus(statuses, agent_run_id,
                                              FinalStatus(error_message), ok)
    /\ stopTrace' = Append(stopTrace, "update_status")
    /\ UNCHANGED <<call_published, call_failed, signalled>>

\* try: await redis.publish(global_control_channel, "STOP") except: log
StopPublishGlobal(agent_run_id) ==
    /\ \E ok \in BOOLEAN :
          IF ok
          THEN /\ call_published' = call_published \cup {GlobalControlChannel(agent_run_id)}
               /\ signalled' = signalled \cup {[agent_run_id |-> agent_run_id,
                                                saved |-> update_success]}
               /\ UNCHANGED call_failed
          ELSE /\ call_failed' = call_failed \cup {GlobalControlChannel(agent_run_id)}
               /\ UNCHANGED <<call_published, signalled>>
    /\ stopTrace' = Append(stopTrace, "publish_global")
    /\ UNCHANGED <<update_success, statuses>>

\* The key lookup and the loop over its keys; a lookup that raises is caught
\* by the handler around the loop.
StopPublishInstances(agent_run_id) ==
    /\ \/ /\ stopTrace' = Append(stopTrace, "keys_failed")
          /\ UNCHANGED <<call_published, call_failed>>
       \/ \E instance_keys \in Orders(KeysOfRun(active_runs, agent_run_id)) :
          \E failed \in SUBSET DOMAIN instance_keys :
             /\ call_published' = call_published \cup InstancePublished(instance_keys, failed)
             /\ call_failed' = call_failed \cup
                    {InstanceControlChannel(instance_keys[i]) : i \in failed}
             /\ stopTrace' = Append(stopTrace, "publish_instances")
    /\ UNCHANGED <<update_success, statuses, signalled>>

\* The next writing step of the call in progress.
StopStep ==
    /\ stop_call # NoCall
    /\ Len(stopTrace) < Len(StopOrder)
    /\ LET step == StopOrder[Len(stopTrace) + 1]
       IN  CASE step = "update_status" ->
                    StopUpdate(stop_call.agent_run_id, stop_call.error_message)
             [] step = "publish_global" -> StopPublishGlobal(stop_call.agent_run_id)
             [] OTHER -> StopPublishInstances(stop_call.agent_run_id)
    /\ UNCHANGED <<active_runs, stop_call, stop_calls, seen, shutdown_pc, running_keys>>
    /\ UNCHANGED <<storeVars, relayVars, obsVars, reqVars, otherVars, others_sent,
                   agentVars>>

\* The call returns to its caller.
StopReturn ==
    /\ stop_call # NoCall
    /\ Len(stopTrace) = Len(StopOrder)
    /\ stop_call' = NoCall
    /\ stopTrace' = <<>>
    /\ update_success' = FALSE
    /\ call_published' = {}
    /\ call_failed' = {}
    /\ UNCHANGED <<active_runs, statuses, stop_calls, signalled, seen, shutdown_pc,
                   running_keys>>
    /\ UNCHANGED <<storeVars, relayVars, obsVars, reqVars, otherVars, others_sent,
                   agentVars>>

\* The status lookup of a relay of some run: what it reads, and whether a
\* STOP of a call whose status write succeeded was out by then.
RelayLookup ==
    /\ \E agent_run_id \in Runs :
          seen' = [agent_run_id |-> agent_run_id,
                   current_status |-> statuses[agent_run_id],
                   after_saved_stop |-> [agent_run_id |-> agent_run_id,
                                         saved |-> TRUE] \in signalled]
    /\ UNCHANGED <<active_runs, statuses, stop_call, stopTrace, update_success,
                   call_published, call_failed, stop_calls, signalled, shutdown_pc,
                   running_keys>>
    /\ UNCHANGED <<storeVars, relayVars, obsVars, reqVars, otherVars, others_sent,
                   agentVars>>

\* cleanup(): the keys of this instance are looked up; a lookup that raises
\* is logged and the broker connection is closed.
ShutdownBegin ==
    /\ shutdown_pc = "up"
    /\ stop_call = NoCall
    /\ \/ /\ shutdown_pc' = "aborted"
          /\ UNCHANGED running_keys
       \/ /\ running_keys' \in Orders(KeysOfInstance(active_runs, instance_id))
          /\ shutdown_pc' = "loop"
    /\ UNCHANGED <<active_runs, statuses, stop_call, stopTrace, update_success,
                   call_published, call_failed, stop_calls, signalled, seen>>
    /\ UNCHANGED <<storeVars, relayVars, obsVars, reqVars, otherVars, others_sent,
                   agentVars>>

\* for key in running_keys: await stop_agent_run(agent_run_id,
\*     error_message=f"Instance {instance_id} shutting down")
ShutdownStop ==
    /\ shutdown_pc = "loop"
    /\ stop_call = NoCall
    /\ running_keys # <<>>
    /\ BeginStop(Head(running_keys)[2], TRUE, "cleanup")
    /\ running_keys' = Tail(running_keys)
    /\ UNCHANGED <<active_runs, statuses, signalled, seen, shutdown_pc>>
    /\ UNCHANGED <<storeVars, relayVars, obsVars, reqVars, otherVars, others_sent,
                   agentVars>>

\* await redis.close()
ShutdownClose ==
    /\ shutdown_pc = "loop"
    /\ stop_call = NoCall
    /\ running_keys = <<>>
    /\ shutdown_pc' = "closed"
    /\ UNCHANGED <<active_runs, statuses, stop_call, stopTrace, update_success,
                   call_published, call_failed, stop_calls, signalled, seen,
                   running_keys>>
    /\ UNCHANGED <<storeVars, relayVars, obsVars, reqVars, otherVars, others_sent,
                   agentVars>>

(***************************************************************************)
(* The agents table of one account, written by create_agent and            *)
(* update_agent requests that ask for is_default.  Each request makes two  *)
(* separate calls to the database: it clears the flag of the account's     *)
(* default agents, and later writes its own row with the flag set.         *)
(***************************************************************************)
Defaults(table) == {agent_id \in AgentIds : table[agent_id] = "default"}

\* update({"is_default": False}).eq("account_id", user_id)
\*     .eq("is_default", True)[.neq("agent_id", agent_id)]
UnsetDefaults(table, except) ==
    [agent_id \in AgentIds |->
        IF table[agent_id] = "default" /\ agent_id \notin except
        THEN "plain" ELSE table[agent_id]]

\* The row of the request's agent with is_default true.
SetDefault(table, agent_id) == [table EXCEPT ![agent_id] = "default"]

\* create_agent, is_default true: unset the account's defaults
CreateUnsetDefaults ==
    /\ \E r \in RequestIds :
          /\ requests[r].kind = "create"
          /\ requests[r].pc = "begin"
          /\ agents' = UnsetDefaults(agents, {})
          /\ requests' = [requests EXCEPT ![r].pc = "unset_done"]
    /\ UNCHANGED <<storeVars, relayVars, obsVars, reqVars, otherVars, others_sent,
                   instVars>>

\* create_agent: insert the new row
CreateInsert ==
    /\ \E r \in RequestIds :
          /\ requests[r].kind = "create"
          /\ requests[r].pc = "unset_done"
          /\ agents' = SetDefault(agents, requests[r].agent_id)
          /\ requests' = [requests EXCEPT ![r].pc = "done"]
    /\ UNCHANGED <<storeVars, relayVars, obsVars, reqVars, otherVars, others_sent,
                   instVars>>

\* update_agent, is_default true: unset the defaults of the other agents
UpdateUnsetOthers ==
    /\ \E r \in RequestIds :
          /\ requests[r].kind = "update"
          /\ requests[r].pc = "begin"
          /\ agents' = UnsetDefaults(agents, {requests[r].agent_id})
          /\ requests' = [requests EXCEPT ![r].pc = "unset_done"]
    /\ UNCHANGED <<storeVars, relayVars, obsVars, reqVars, otherVars, others_sent,
                   instVars>>

\* update_agent: update the row of the agent with update_data
UpdateWrite ==
    /\ \E r \in RequestIds :
          /\ requests[r].kind = "update"
          /\ requests[r].pc = "unset_done"
          /\ agents' = SetDefault(agents, requests[r].agent_id)
          /\ requests' = [requests EXCEPT ![r].pc = "done"]
    /\ UNCHANGED <<storeVars, relayVars, obsVars, reqVars, otherVars, others_sent,
                   instVars>>

(***************************************************************************)
(* stream_generator.                                                       *)
(***************************************************************************)
\* Entering the finally block: terminate_stream = True, then the cleanup.
EnterFinally(path) ==
    /\ pc' = "finally"
    /\ terminate_stream' = TRUE
    /\ exitPath' = path

\* except Exception as e: the frames after the outer handler has run.
OuterHandler(e) ==
    IF YieldsStartError(initial_yield_complete)
    THEN Append(frames, StartErrorFrame(e))
    ELSE frames

\* 1. The initial read of the whole list, and the first yield.
ReplayRead ==
    /\ pc = "start"
    /\ LET initial_responses_json == Lrange(log, 0)
           initial == IF initial_responses_json # <<>>
                      THEN LoadAll(initial_responses_json) ELSE <<>>
       IN  /\ initial_responses' = initial
           /\ log' = LogAfterRead(log, 0)
           /\ readLog' = log
           /\ totalRead' = Len(initial_responses_json)
           /\ IF initial = <<>>
              THEN /\ initial_yield_complete' = TRUE
                   /\ pc' = "status_lookup"
                   /\ UNCHANGED <<frames, yielded>>
              ELSE /\ frames' = Append(frames, RecordFrame("replay", initial[1]))
                   /\ yielded' = 1
                   /\ pc' = "replay_yield"
                   /\ UNCHANGED initial_yield_complete
    /\ UNCHANGED <<runStatus, respChan, ctrlChan, wpc, spc,
                   last_processed_index, pubsub_response, pubsub_control,
                   listener_task, tasks, terminate_stream, new_responses, control_signal,
                   message_queue, current_status, mark, ctrlRecv, exitPath,
                   cleanupTrace, escaped>>
    /\ UNCHANGED <<reqVars, sideVars, otherVars>>

\* redis.lrange raises, or a record of the list read fails to decode.  The
\* whole list is decoded before the first yield, so either way no frame has
\* been yielded and the outer handler yields the start-up error frame.
ReplayReadFails ==
    /\ pc = "start"
    /\ \E e \in Exceptions :
          /\ e = "JSONDecodeError" => Lrange(log, 0) # <<>>
          /\ readLog' = IF e = "JSONDecodeError" THEN log ELSE readLog
          /\ frames' = OuterHandler(e)
    /\ EnterFinally("setup_error")
    /\ UNCHANGED <<storeVars, last_processed_index, pubsub_response, pubsub_control,
                   listener_task, tasks, initial_yield_complete, initial_responses,
                   new_responses, yielded, control_signal, message_queue,
                   totalRead, current_status, mark, ctrlRecv, cleanupTrace, escaped>>
    /\ UNCHANGED <<reqVars, sideVars, otherVars>>

\* The generator is resumed at the yield of the replay loop.
ReplayResume ==
    /\ pc = "replay_yield"
    /\ IF yielded < Len(initial_responses)
       THEN /\ frames' = Append(frames, RecordFrame("replay", initial_responses[yielded + 1]))
            /\ yielded' = yielded + 1
            /\ UNCHANGED <<pc, last_processed_index, initial_yield_complete>>
       ELSE /\ last_processed_index' = InitialCursor(Len(initial_responses))
            /\ initial_yield_complete' = TRUE
            /\ pc' = "status_lookup"
            /\ UNCHANGED <<frames, yielded>>
    /\ UNCHANGED <<storeVars, pubsub_response, pubsub_control, listener_task, tasks,
                   terminate_stream, initial_responses, new_responses,
                   control_signal, message_queue, obsVars>>
    /\ UNCHANGED <<reqVars, sideVars, otherVars>>

\* 2. The status lookup; the row may be gone (run_status.data empty).
StatusLookup ==
    /\ pc = "status_lookup"
    /\ \E found \in BOOLEAN :
          current_status' = IF found THEN runStatus ELSE None
    /\ IF NotRunning(current_status')
       THEN /\ frames' = Append(frames, LivenessFrame)
            /\ EnterFinally("return")
       ELSE /\ pc' = "subscribe_response"
            /\ UNCHANGED <<frames, terminate_stream, exitPath, cleanupTrace>>
    /\ UNCHANGED <<storeVars, last_processed_index, pubsub_response, pubsub_control,
                   listener_task, tasks, initial_yield_complete, initial_responses,
                   new_responses, yielded, control_signal, message_queue,
                   readLog, totalRead, mark, ctrlRecv, cleanupTrace, escaped>>
    /\ UNCHANGED <<reqVars, sideVars, otherVars>>

\* The lookup raises: the outer handler yields nothing, the initial yield
\* being complete.
StatusLookupFails ==
    /\ pc = "status_lookup"
    /\ frames' = OuterHandler("ConnectionError")
    /\ EnterFinally("setup_error")
    /\ UNCHANGED <<storeVars, last_processed_index, pubsub_response, pubsub_control,
                   listener_task, tasks, initial_yield_complete, initial_responses,
                   new_responses, yielded, control_signal, message_queue,
                   readLog, totalRead, current_status, mark, ctrlRecv, cleanupTrace, escaped>>
    /\ UNCHANGED <<reqVars, sideVars, otherVars>>

\* 3. pubsub_response = await redis.create_pubsub();
\*    await pubsub_response.subscribe(response_channel)
SubscribeResponse ==
    /\ pc = "subscribe_response"
    /\ pubsub_response' = "subscribed"
    /\ respChan' = <<SubscribeReply(ResponseChannel)>>
    /\ pc' = "subscribe_control"
    /\ UNCHANGED <<log, runStatus, ctrlChan, wpc, spc, last_processed_index,
                   pubsub_control, listener_task, tasks, terminate_stream,
                   initial_yield_complete, initial_responses, new_responses,
                   yielded, control_signal, message_queue, frames, obsVars>>
    /\ UNCHANGED <<reqVars, sideVars, otherVars>>

\* create_pubsub raises (no handle), or subscribe raises (handle created).
SubscribeResponseFails ==
    /\ pc = "subscribe_response"
    /\ \E created \in BOOLEAN :
          pubsub_response' = IF created THEN "created" ELSE None
    /\ frames' = OuterHandler("ConnectionError")
    /\ EnterFinally("setup_error")
    /\ UNCHANGED <<storeVars, last_processed_index, pubsub_control,
                   listener_task, tasks, initial_yield_complete, initial_responses,
                   new_responses, yielded, control_signal, message_queue,
                   readLog, totalRead, current_status, mark, ctrlRecv, cleanupTrace, escaped>>
    /\ UNCHANGED <<reqVars, sideVars, otherVars>>

\*    pubsub_control = await redis.create_pubsub();
\*    await pubsub_control.subscribe(control_channel);
\*    message_queue = asyncio.Queue();
\*    listener_task = asyncio.create_task(listen_messages())
SubscribeControl ==
    /\ pc = "subscribe_control"
    /\ pubsub_control' = "subscribed"
    /\ ctrlChan' = <<SubscribeReply(ControlChannel)>>
    /\ message_queue' = <<>>
    /\ listener_task' = "running"
    /\ tasks' = FirstTasks
    /\ pc' = "bridge_wait"
    /\ UNCHANGED <<log, runStatus, respChan, wpc, spc, last_processed_index,
                   pubsub_response, terminate_stream, initial_yield_complete,
                   initial_responses, new_responses, yielded, control_signal,
                   frames, obsVars>>
    /\ UNCHANGED <<reqVars, sideVars, otherVars>>

SubscribeControlFails ==
    /\ pc = "subscribe_control"
    /\ \E created \in BOOLEAN :
          pubsub_control' = IF created THEN "created" ELSE None
    /\ frames' = OuterHandler("ConnectionError")
    /\ EnterFinally("setup_error")
    /\ UNCHANGED <<storeVars, last_processed_index, pubsub_response,
                   listener_task, tasks, initial_yield_complete, initial_responses,
                   new_responses, yielded, control_signal, message_queue,
                   readLog, totalRead, current_status, mark, ctrlRecv, cleanupTrace, escaped>>
    /\ UNCHANGED <<reqVars, sideVars, otherVars>>


(***************************************************************************)
(* listen_messages: the listener task.  It waits on both readers, turns    *)
(* each message into a queue item and re-arms the wait; it returns after   *)
(* queuing a control or an error item.                                     *)
(***************************************************************************)
NewResponseItem == [type |-> "new_response", data |-> None]
ControlItem(data) == [type |-> "control", data |-> data]
ErrorItem(data) == [type |-> "error", data |-> data]

NoItem == [type |-> "none", data |-> None]

\* QueueItemFor going by the channel alone.
QueueItemFor_ChannelOnly(message) ==
    IF message.type = "message"
    THEN IF message.channel = ResponseChannel
         THEN NewResponseItem
         ELSE ControlItem(message.data)
    ELSE NoItem

\* The queue item a received message is turned into; NoItem when the message
\* is dropped.
QueueItemFor(message) ==
    IF message.type = "message"
    THEN IF message.channel = ResponseChannel /\ message.data = "new"
         THEN NewResponseItem
         ELSE IF message.channel = ControlChannel /\ message.data \in ControlSignals
              THEN ControlItem(message.data)
              ELSE NoItem
    ELSE NoItem

\* `return` after a control item; otherwise the loop test
\* `while not terminate_stream`.
ListenerAfter(item) ==
    IF item.type = "control" THEN "returned"
    ELSE IF terminate_stream THEN "returned" ELSE "running"

\* Rearms re-arming after "message" events only.
Rearms_MessagesOnly(message, channel) ==
    message.type = "message" /\ message.channel = channel

\* finally: message.get("channel") == response_channel / control_channel,
\* whatever the type of the message
Rearms(message, channel) == message.channel = channel

\* The pending waits after the wait on a channel has completed with a
\* message: the completed task is removed, a new wait is created on the
\* reader of the message's channel, and on leaving the loop by its test the
\* waits still pending are cancelled.  A `return` skips that cancellation.
TasksAfter(message, channel, item) ==
    LET rearmed == [c \in DOMAIN tasks |->
                      IF c = channel
                      THEN tasks[c] - 1 + (IF Rearms(message, c) THEN 1 ELSE 0)
                      ELSE tasks[c] + (IF Rearms(message, c) THEN 1 ELSE 0)]
    IN  IF item.type # "control" /\ terminate_stream THEN NoTasks ELSE rearmed

ListenerRecvResponse ==
    /\ listener_task = "running"
    /\ tasks[ResponseChannel] > 0
    /\ respChan # <<>>
    /\ LET item == QueueItemFor(Head(respChan))
       IN  /\ message_queue' = IF item # NoItem THEN Append(message_queue, item)
                                ELSE message_queue
           /\ listener_task' = ListenerAfter(item)
           /\ tasks' = TasksAfter(Head(respChan), ResponseChannel, item)
    /\ respChan' = Tail(respChan)
    /\ UNCHANGED <<log, runStatus, ctrlChan, wpc, spc, pc, last_processed_index,
                   pubsub_response, pubsub_control, terminate_stream,
                   initial_yield_complete, initial_responses, new_responses,
                   yielded, control_signal, frames, obsVars>>
    /\ UNCHANGED <<reqVars, sideVars, otherVars>>

ListenerRecvControl ==
    /\ listener_task = "running"
    /\ tasks[ControlChannel] > 0
    /\ ctrlChan # <<>>
    /\ LET item == QueueItemFor(Head(ctrlChan))
       IN  /\ message_queue' = IF item # NoItem THEN Append(message_queue, item)
                                ELSE message_queue
           /\ listener_task' = ListenerAfter(item)
           /\ tasks' = TasksAfter(Head(ctrlChan), ControlChannel, item)
           /\ ctrlRecv' = IF item.type = "control"
                          THEN [mark |-> Len(frames), data |-> Head(ctrlChan).data]
                          ELSE ctrlRecv
    /\ ctrlChan' = Tail(ctrlChan)
    /\ UNCHANGED <<log, runStatus, respChan, wpc, spc, pc, last_processed_index,
                   pubsub_response, pubsub_control, terminate_stream,
                   initial_yield_complete, initial_responses, new_responses,
                   yielded, control_signal, frames, readLog, totalRead,
                   current_status, mark, exitPath, cleanupTrace, escaped>>
    /\ UNCHANGED <<reqVars, sideVars, otherVars>>

\* A reader's wait ends or raises: an error item is queued and the listener
\* returns.  Modelled while the generator is in its bridge loop; once it has
\* left the loop nothing reads the queue.  The failed wait is removed from
\* tasks; a wait that the finally clause creates after a failure (by the
\* channel of the message bound last) is on a reader that has ended or that
\* has its wait pending, so it ends at once and is not counted.
ListenerFailsOn(channel) ==
    /\ listener_task = "running"
    /\ pc \in {"bridge_wait", "refill_yield"}
    /\ \E data \in {"Listener stopped unexpectedly", "Listener failed"} :
          message_queue' = Append(message_queue, ErrorItem(data))
    /\ tasks[channel] > 0
    /\ tasks' = [tasks EXCEPT ![channel] = @ - 1]
    /\ listener_task' = "returned"
    /\ UNCHANGED <<storeVars, pc, last_processed_index, pubsub_response,
                   pubsub_control, terminate_stream, initial_yield_complete,
                   initial_responses, new_responses, yielded, control_signal,
                   frames, obsVars>>
    /\ UNCHANGED <<reqVars, sideVars, otherVars>>

\* The failure of either reader takes the same branches of the listener and
\* queues the same items; the two differ only in which wait stays in tasks,
\* and no step of the generator reads tasks once the listener has returned.
\* The relay is therefore followed with the response reader's failure, and
\* the control reader's is added where the waits themselves are followed.
ListenerFails == ListenerFailsOn(ResponseChannel)

ControlReaderFails == ListenerFailsOn(ControlChannel)

(***************************************************************************)
(* 4. The bridge loop of stream_generator.                                 *)
(***************************************************************************)
\* queue_item = await message_queue.get(): an asyncio.Queue hands out the
\* item that was put first.
QueueGet_Newest(queue) ==
    [item |-> queue[Len(queue)], rest |-> SubSeq(queue, 1, Len(queue) - 1)]

QueueGet(queue) == [item |-> Head(queue), rest |-> Tail(queue)]

\* A new_response item: read the list from the cursor on; yield the first
\* record read, if any.
BridgeNewResponse ==
    /\ pc = "bridge_wait"
    /\ message_queue # <<>>
    /\ QueueGet(message_queue).item.type = "new_response"
    /\ message_queue' = QueueGet(message_queue).rest
    /\ mark' = Len(frames)
    /\ LET new_start_index == NewStartIndex(last_processed_index)
           new_responses_json == Lrange(log, new_start_index)
       IN  /\ log' = LogAfterRead(log, new_start_index)
           /\ IF new_responses_json # <<>>
              THEN /\ new_responses' = LoadAll(new_responses_json)
                   /\ totalRead' = totalRead + Len(new_responses_json)
                   /\ frames' = Append(frames, RecordFrame("refill", Loads(new_responses_json[1])))
                   /\ yielded' = 1
                   /\ pc' = "refill_yield"
              ELSE UNCHANGED <<new_responses, totalRead, frames, yielded, pc>>
    /\ UNCHANGED <<runStatus, respChan, ctrlChan, wpc, spc,
                   last_processed_index, pubsub_response, pubsub_control,
                   listener_task, tasks, terminate_stream, initial_yield_complete,
                   initial_responses, control_signal, readLog, current_status,
                   ctrlRecv, exitPath, cleanupTrace, escaped>>
    /\ UNCHANGED <<reqVars, sideVars, otherVars>>

\* The read of a new_response item raises, or a record read fails to
\* decode (the batch is decoded before its first yield): the loop's handler
\* yields an error frame with the exception's message and leaves the loop.
BridgeReadFails ==
    /\ pc = "bridge_wait"
    /\ message_queue # <<>>
    /\ QueueGet(message_queue).item.type = "new_response"
    /\ message_queue' = QueueGet(message_queue).rest
    /\ mark' = Len(frames)
    /\ \E loop_err \in Exceptions :
          /\ loop_err = "JSONDecodeError" =>
                Lrange(log, NewStartIndex(last_processed_index)) # <<>>
          /\ frames' = Append(frames, LoopErrorFrame(loop_err))
    /\ EnterFinally("loop_error")
    /\ UNCHANGED <<storeVars, last_processed_index, pubsub_response, pubsub_control,
                   listener_task, tasks, initial_yield_complete, initial_responses,
                   new_responses, yielded, control_signal, readLog, totalRead,
                   current_status, ctrlRecv, cleanupTrace, escaped>>
    /\ UNCHANGED <<reqVars, sideVars, otherVars>>

\* The generator is resumed at the yield of the refill loop.
RefillResume ==
    /\ pc = "refill_yield"
    /\ LET response == new_responses[yielded]
           num_new == Len(new_responses)
       IN  IF IsTerminalStatus(response)
           THEN /\ last_processed_index' = AdvanceCursor(last_processed_index, num_new)
                /\ EnterFinally("terminal")
                /\ UNCHANGED <<frames, yielded>>
           ELSE IF yielded < num_new
                THEN /\ frames' = Append(frames, RecordFrame("refill", new_responses[yielded + 1]))
                     /\ yielded' = yielded + 1
                     /\ UNCHANGED <<pc, last_processed_index, terminate_stream, exitPath, cleanupTrace>>
                ELSE /\ last_processed_index' = AdvanceCursor(last_processed_index, num_new)
                     /\ pc' = "bridge_wait"
                     /\ UNCHANGED <<frames, yielded, terminate_stream, exitPath, cleanupTrace>>
    /\ UNCHANGED <<storeVars, pubsub_response, pubsub_control, listener_task, tasks,
                   initial_yield_complete, initial_responses, new_responses,
                   control_signal, message_queue, readLog, totalRead,
                   current_status, mark, ctrlRecv, cleanupTrace, escaped>>
    /\ UNCHANGED <<reqVars, sideVars, otherVars>>

\* A control item: one status frame carrying the signal, then the loop ends.
BridgeControl ==
    /\ pc = "bridge_wait"
    /\ message_queue # <<>>
    /\ QueueGet(message_queue).item.type = "control"
    /\ message_queue' = QueueGet(message_queue).rest
    /\ mark' = Len(frames)
    /\ control_signal' = QueueGet(message_queue).item.data
    /\ frames' = Append(frames, ControlFrame(control_signal'))
    /\ EnterFinally("control")
    /\ UNCHANGED <<storeVars, last_processed_index, pubsub_response, pubsub_control,
                   listener_task, tasks, initial_yield_complete, initial_responses,
                   new_responses, yielded, readLog, totalRead, current_status,
                   ctrlRecv, cleanupTrace, escaped>>
    /\ UNCHANGED <<reqVars, sideVars, otherVars>>

\* An error item of the listener: one generic error frame, then the loop ends.
BridgeError ==
    /\ pc = "bridge_wait"
    /\ message_queue # <<>>
    /\ QueueGet(message_queue).item.type = "error"
    /\ message_queue' = QueueGet(message_queue).rest
    /\ mark' = Len(frames)
    /\ frames' = Append(frames, ListenerErrorFrame)
    /\ EnterFinally("listener_error")
    /\ UNCHANGED <<storeVars, last_processed_index, pubsub_response, pubsub_control,
                   listener_task, tasks, initial_yield_complete, initial_responses,
                   new_responses, yielded, control_signal, readLog, totalRead,
                   current_status, ctrlRecv, cleanupTrace, escaped>>
    /\ UNCHANGED <<reqVars, sideVars, otherVars>>

\* The places where the generator is suspended in an await or at a yield.
SuspensionPoints == {"start", "replay_yield", "status_lookup", "subscribe_response",
                     "subscribe_control", "bridge_wait", "refill_yield"}

\* The client goes away: CancelledError is raised in the pending await, or
\* the generator is closed at its yield.  Neither is caught as Exception;
\* the finally block runs.  A cancelled subscription set-up may have created
\* its handle already.
ClientDisconnect ==
    /\ pc \in SuspensionPoints
    /\ \E created \in BOOLEAN :
          /\ pubsub_response' = IF pc = "subscribe_response" /\ created
                                THEN "created" ELSE pubsub_response
          /\ pubsub_control' = IF pc = "subscribe_control" /\ created
                               THEN "created" ELSE pubsub_control
    /\ EnterFinally("cancelled")
    /\ UNCHANGED <<storeVars, last_processed_index, listener_task, tasks,
                   initial_yield_complete, initial_responses, new_responses,
                   yielded, control_signal, message_queue, frames, readLog,
                   totalRead, current_status, mark, ctrlRecv, cleanupTrace, escaped>>
    /\ UNCHANGED <<reqVars, sideVars, otherVars>>


(***************************************************************************)
(* 5. The finally block: unsubscribe both, close both, cancel and await    *)
(* the listener task, sleep.  A step whose handle is None is skipped.  The *)
(* steps are not guarded: an exception raised by one of them ends the      *)
(* block there and leaves the generator.  The block is one step of the     *)
(* model; cleanupTrace records the steps in the order they were done.      *)
(***************************************************************************)
\* CleanupOrder with each handle closed right after its unsubscribe.
CleanupOrder_HandleByHandle ==
    <<"unsubscribe_response", "close_response", "unsubscribe_control",
      "close_control", "cancel_listener", "sleep">>

\* Graceful shutdown order: unsubscribe -> close -> cancel
CleanupOrder == <<"unsubscribe_response", "unsubscribe_control", "close_response",
                  "close_control", "cancel_listener", "sleep">>

\* if pubsub_response: ... / if pubsub_control: ... / if listener_task: ...
Applies(step) ==
    CASE step \in {"unsubscribe_response", "close_response"} -> pubsub_response # None
      [] step \in {"unsubscribe_control", "close_control"} -> pubsub_control # None
      [] step = "cancel_listener" -> listener_task # None
      [] OTHER -> TRUE

\* The calls on a pub/sub handle, which go to the broker and may raise.
MayRaise(step) == step \in {"unsubscribe_response", "unsubscribe_control",
                            "close_response", "close_control"}

\* The steps done when the step at position failAt raises (0: none raises).
StepsDone(failAt) ==
    SelectSeq(SubSeq(CleanupOrder, 1, IF failAt = 0 THEN Len(CleanupOrder) ELSE failAt - 1),
              Applies)

InSeq(x, seq) == \E i \in 1..Len(seq) : seq[i] = x

HandleAfter(handle, done, unsub, close) ==
    IF InSeq(close, done) THEN "closed"
    ELSE IF InSeq(unsub, done) THEN "unsubscribed"
    ELSE handle

Cleanup ==
    /\ pc = "finally"
    /\ \E failAt \in {0} \cup {i \in 1..Len(CleanupOrder) :
                                 MayRaise(CleanupOrder[i]) /\ Applies(CleanupOrder[i])} :
          LET done == StepsDone(failAt)
          IN  /\ cleanupTrace' = done
              /\ pubsub_response' = HandleAfter(pubsub_response, done,
                                         "unsubscribe_response", "close_response")
              /\ pubsub_control' = HandleAfter(pubsub_control, done,
                                         "unsubscribe_control", "close_control")
              /\ listener_task' = IF InSeq("cancel_listener", done) /\ listener_task = "running"
                                  THEN "cancelled" ELSE listener_task
              /\ escaped' = (failAt # 0)
    /\ pc' = "done"
    /\ UNCHANGED tasks
    /\ UNCHANGED <<storeVars, last_processed_index, terminate_stream,
                   initial_yield_complete, initial_responses, new_responses,
                   yielded, control_signal, message_queue, frames, readLog,
                   totalRead, current_status, mark, ctrlRecv, exitPath>>
    /\ UNCHANGED <<reqVars, sideVars, otherVars>>

\* The waits left pending by the listener end on their own once their
\* handles were unsubscribed or closed: the reader gets the confirmation of
\* the unsubscribe or the error of the closed connection.  Nothing awaits
\* them, so this happens whenever the event loop runs the tasks.
ReaderEnds ==
    /\ listener_task \in {"returned", "cancelled"}
    /\ \E channel \in DOMAIN tasks :
          tasks[channel] > 0 /\ HandleOf(channel) \in {"unsubscribed", "closed"}
    /\ tasks' = [channel \in DOMAIN tasks |->
                    IF HandleOf(channel) \in {"unsubscribed", "closed"}
                    THEN 0 ELSE tasks[channel]]
    /\ UNCHANGED <<storeVars, pc, last_processed_index, pubsub_response,
                   pubsub_control, listener_task, terminate_stream,
                   initial_yield_complete, initial_responses, new_responses,
                   yielded, control_signal, message_queue, frames, obsVars>>
    /\ UNCHANGED <<reqVars, sideVars, otherVars>>

(***************************************************************************)
(* A second connection on the same run: another call of stream_agent_run   *)
(* with its own generator, the same code with its own locals, its own      *)
(* pub/sub handles and its own queue.  Each batch it sends is one step     *)
(* here, its subscriptions are one handle, and the messages the broker     *)
(* delivers to it wait in other_queue until its bridge loop takes them.    *)
(***************************************************************************)
\* The frames a batch is sent as.
BatchFrames(src, batch) == [i \in 1..Len(batch) |-> RecordFrame(src, batch[i])]

\* The part of a refill batch that is sent: up to and including the first
\* terminal status record.
SentOf(batch) ==
    LET terminal == {i \in 1..Len(batch) : IsTerminalStatus(batch[i])}
    IN  IF terminal = {} THEN batch
        ELSE SubSeq(batch, 1, CHOOSE i \in terminal : \A j \in terminal : i <= j)

otherStores == <<runStatus, respChan, ctrlChan, wpc, spc>>

OtherReplay ==
    /\ other_pc = "start"
    /\ LET initial == LoadAll(Lrange(log, 0))
       IN  /\ log' = LogAfterRead(log, 0)
           /\ other_frames' = BatchFrames("replay", initial)
           /\ other_last_processed_index' =
                 IF initial # <<>> THEN InitialCursor(Len(initial))
                 ELSE other_last_processed_index
    /\ other_pc' = "status_lookup"
    /\ UNCHANGED <<otherStores, relayVars, obsVars, reqVars, sideVars, other_pubsub, other_queue>>

OtherStatusLookup ==
    /\ other_pc = "status_lookup"
    /\ IF NotRunning(runStatus)
       THEN /\ other_frames' = Append(other_frames, LivenessFrame)
            /\ other_pc' = "done"
       ELSE /\ other_pc' = "subscribe"
            /\ UNCHANGED other_frames
    /\ UNCHANGED <<storeVars, relayVars, obsVars, reqVars, sideVars,
                   other_last_processed_index, other_pubsub, other_queue>>

OtherSubscribe ==
    /\ other_pc = "subscribe"
    /\ other_pubsub' = "subscribed"
    /\ other_queue' = <<>>
    /\ other_pc' = "bridge_wait"
    /\ UNCHANGED <<storeVars, relayVars, obsVars, reqVars, sideVars,
                   other_last_processed_index, other_frames>>

\* A new_response item: the refill, then the wait again, or the end at a
\* terminal status record.
OtherRefill ==
    /\ other_pc = "bridge_wait"
    /\ other_queue # <<>>
    /\ QueueItemFor(Head(other_queue)).type = "new_response"
    /\ other_queue' = Tail(other_queue)
    /\ LET new_start_index == NewStartIndex(other_last_processed_index)
           batch == LoadAll(Lrange(log, new_start_index))
           sent == SentOf(batch)
       IN  /\ log' = LogAfterRead(log, new_start_index)
           /\ other_frames' = other_frames \o BatchFrames("refill", sent)
           /\ other_last_processed_index' =
                 IF batch # <<>> THEN AdvanceCursor(other_last_processed_index, Len(batch))
                 ELSE other_last_processed_index
           /\ IF sent # <<>> /\ IsTerminalStatus(sent[Len(sent)])
              THEN /\ other_pc' = "done"
                   /\ other_pubsub' = "closed"
              ELSE UNCHANGED <<other_pc, other_pubsub>>
    /\ UNCHANGED <<otherStores, relayVars, obsVars, reqVars, sideVars>>

\* A control item: the status frame of the signal, then the end.
OtherControl ==
    /\ other_pc = "bridge_wait"
    /\ other_queue # <<>>
    /\ QueueItemFor(Head(other_queue)).type = "control"
    /\ other_queue' = Tail(other_queue)
    /\ other_frames' = Append(other_frames, ControlFrame(QueueItemFor(Head(other_queue)).data))
    /\ other_pc' = "done"
    /\ other_pubsub' = "closed"
    /\ UNCHANGED <<storeVars, relayVars, obsVars, reqVars, sideVars, other_last_processed_index>>

(***************************************************************************)
(* stream_agent_run before the generator starts: the user is resolved,     *)
(* then the run is looked up and access to its thread is verified.  An     *)
(* HTTPException ends the request with its status; nothing of the          *)
(* generator runs.                                                         *)
(***************************************************************************)
generatorLocals == <<last_processed_index, pubsub_response, pubsub_control,
                     listener_task, tasks, terminate_stream, initial_yield_complete,
                     initial_responses, new_responses, yielded, control_signal,
                     message_queue, frames>>

\* user_id = await get_user_id_from_stream_auth(request, token)
StreamAuth ==
    /\ pc = "request"
    /\ LET auth == GetUserIdFromStreamAuth(token, auth_header)
       IN  /\ user_id' = auth.user_id
           /\ IF auth.status = 401
              THEN /\ http_status' = 401
                   /\ pc' = "rejected"
              ELSE /\ pc' = "access_check"
                   /\ UNCHANGED http_status
    /\ UNCHANGED <<storeVars, generatorLocals, obsVars, token, auth_header, otherVars, sideVars>>

\* agent_run_data = await get_agent_run_with_access_check(...): 404 when the
\* run or its thread is not found, 403 when the thread is not the user's;
\* otherwise the StreamingResponse is returned.
AccessCheck ==
    /\ pc = "access_check"
    /\ \E answer \in {200, 403, 404} :
          /\ http_status' = answer
          /\ pc' = IF answer = 200 THEN "start" ELSE "rejected"
    /\ UNCHANGED <<storeVars, generatorLocals, obsVars, token, auth_header, user_id,
                   otherVars, sideVars>>

(***************************************************************************)
(* The specification.                                                      *)
(***************************************************************************)
WorkerStep == WorkerAppend \/ WorkerAnnounce \/ WorkerUpdateStatus \/ WorkerSignal

ListenerStep == ListenerRecvResponse \/ ListenerRecvControl

\* The steps the generator takes when nothing fails and the client stays.
RelayStep ==
    \/ ReplayRead \/ ReplayResume \/ StatusLookup
    \/ SubscribeResponse \/ SubscribeControl
    \/ BridgeNewResponse \/ RefillResume \/ BridgeControl \/ BridgeError
    \/ Cleanup

Next ==
    \/ WorkerAppend \/ WorkerAnnounce \/ WorkerUpdateStatus \/ WorkerSignal
    \/ StopUpdateStatus \/ StopPublish
    \/ ReplayRead \/ ReplayReadFails \/ ReplayResume
    \/ StatusLookup \/ StatusLookupFails
    \/ SubscribeResponse \/ SubscribeResponseFails
    \/ SubscribeControl \/ SubscribeControlFails
    \/ ListenerRecvResponse \/ ListenerRecvControl \/ ListenerFails
    \/ BridgeNewResponse \/ BridgeReadFails \/ RefillResume
    \/ BridgeControl \/ BridgeError
    \/ ClientDisconnect
    \/ Cleanup

Spec == Init /\ [][Next]_vars

\* The event loop runs every task that can run: the generator while the
\* client keeps reading, the listener task, the worker, and a call of
\* stop_agent_run that has begun.  Failures, the client's leaving and stop
\* requests are under no obligation to happen.
FairSpec ==
    /\ Spec
    /\ WF_vars(RelayStep)
    /\ WF_vars(ListenerStep)
    /\ WF_vars(WorkerStep)
    /\ WF_vars(StopPublish)

\* Two connections on the same run, the client of each staying connected
\* and no call failing.
PairInit ==
    /\ RunInit
    /\ pc = "start"
    /\ AuthenticatedRequest
    /\ OtherInit("start")
    /\ SideIdle

PairNext ==
    \/ WorkerAppend \/ WorkerAnnounce \/ WorkerUpdateStatus \/ WorkerSignal
    \/ ReplayRead \/ ReplayResume \/ StatusLookup
    \/ SubscribeResponse \/ SubscribeControl
    \/ ListenerRecvResponse \/ ListenerRecvControl
    \/ BridgeNewResponse \/ RefillResume \/ BridgeControl
    \/ Cleanup
    \/ OtherReplay \/ OtherStatusLookup \/ OtherSubscribe
    \/ OtherRefill \/ OtherControl

PairSpec == PairInit /\ [][PairNext]_vars

\* The relay with the channel waits of its listener followed to their end:
\* every step of Next, the failure of the control reader, and the waits left
\* pending ending on their own.
WaitsNext == Next \/ ControlReaderFails \/ ReaderEnds

WaitsSpec == Init /\ [][WaitsNext]_vars

\* The relay while other publishers use the run's channels; no call fails
\* and the client stays.
OthersNext ==
    \/ WorkerAppend \/ WorkerAnnounce \/ WorkerUpdateStatus \/ WorkerSignal
    \/ PublishOther
    \/ ReplayRead \/ ReplayResume \/ StatusLookup
    \/ SubscribeResponse \/ SubscribeControl
    \/ ListenerRecvResponse \/ ListenerRecvControl
    \/ BridgeNewResponse \/ RefillResume \/ BridgeControl
    \/ Cleanup

OthersSpec == Init /\ [][OthersNext]_vars

\* The instance with any set of keys for its runs: stop requests, relays
\* looking up the status, then the shutdown.
InstanceInit ==
    /\ RunInit
    /\ pc = "start"
    /\ AuthenticatedRequest
    /\ OtherInit("absent")
    /\ others_sent = 0
    /\ active_runs \in SUBSET (Instances \X Runs)
    /\ InstanceIdle
    /\ AgentsIdle

InstanceNext ==
    \/ StopRequest \/ StopStep \/ StopReturn
    \/ RelayLookup
    \/ ShutdownBegin \/ ShutdownStop \/ ShutdownClose

InstanceSpec == InstanceInit /\ [][InstanceNext]_vars

\* An account with at most one default agent, and two requests with
\* is_default true: a create_agent (its row does not exist yet; two creates
\* get different ids) or an update_agent of an agent that exists.
AgentInit ==
    /\ RunInit
    /\ pc = "start"
    /\ AuthenticatedRequest
    /\ OtherInit("absent")
    /\ others_sent = 0
    /\ active_runs = {}
    /\ InstanceIdle
    /\ agents \in [AgentIds -> {"absent", "plain", "default"}]
    /\ Cardinality(Defaults(agents)) <= 1
    /\ requests \in [RequestIds -> [kind : {"create", "update"}, agent_id : AgentIds,
                                    pc : {"begin"}]]
    /\ \A r \in RequestIds :
          IF requests[r].kind = "create"
          THEN /\ agents[requests[r].agent_id] = "absent"
               /\ \A q \in RequestIds \ {r} :
                     requests[q].kind = "create" =>
                        requests[q].agent_id # requests[r].agent_id
          ELSE agents[requests[r].agent_id] # "absent"

AgentNext ==
    \/ CreateUnsetDefaults \/ CreateInsert
    \/ UpdateUnsetOthers \/ UpdateWrite

AgentSpec == AgentInit /\ [][AgentNext]_vars

\* A request arrives with any query token and any Authorization header.
AuthInit ==
    /\ RunInit
    /\ pc = "request"
    /\ token \in QueryTokens
    /\ auth_header \in Headers
    /\ user_id = NoUser
    /\ http_status = 0
    /\ OtherInit("absent")
    /\ SideIdle

\* The request, and the generator up to its subscriptions, while the worker
\* writes the log.
AuthNext ==
    \/ StreamAuth \/ AccessCheck
    \/ WorkerAppend \/ WorkerAnnounce
    \/ ReplayRead \/ ReplayResume \/ StatusLookup
    \/ SubscribeResponse \/ SubscribeControl
    \/ Cleanup

AuthSpec == AuthInit /\ [][AuthNext]_vars

(***************************************************************************)
(* Vocabulary of the properties.                                           *)
(***************************************************************************)
\* The frame a record of the log is sent as, whichever phase sends it.
IsFrameOf(frame, raw) == frame.src \in {"replay", "refill"} /\ frame.data = raw

\* The frames sent for records of the log, in the order sent.
IsRecordFrame(frame) == frame.src \in {"replay", "refill"}
RecordFrames == SelectSeq(frames, IsRecordFrame)

\* A terminal status record: type "status", status completed, failed or stopped.
TerminalRecord(d) ==
    /\ d.type = "status"
    /\ "status" \in DOMAIN d
    /\ d.status \in {"completed", "failed", "stopped"}

\* 1-based position of the first terminal status record of a batch; 0 if none.
FirstTerminal(batch) ==
    IF \E i \in 1..Len(batch) : TerminalRecord(batch[i])
    THEN CHOOSE i \in 1..Len(batch) :
            /\ TerminalRecord(batch[i])
            /\ \A j \in 1..(i - 1) : ~TerminalRecord(batch[j])
    ELSE 0

\* A status frame made up by the relay.
IsSynthStatus(frame) == frame.src = "synth"

Finished == pc \in {"finally", "done"}

(***************************************************************************)
(* C1. Replay completeness: the N records the log holds at the initial     *)
(* read are sent as N frames, in log order, before the status lookup is    *)
(* made and before any subscription is opened.                             *)
(***************************************************************************)
C1_ReplayCompleteness ==
    /\ pc \in {"start", "replay_yield"} =>
          /\ current_status = "unfetched"
          /\ pubsub_response = None
          /\ pubsub_control = None
          /\ listener_task = None
    /\ (\/ pc \in {"status_lookup", "subscribe_response", "subscribe_control",
                   "bridge_wait", "refill_yield"}
        \/ current_status # "unfetched"
        \/ pubsub_response # None
        \/ pubsub_control # None) =>
          /\ Len(frames) >= Len(readLog)
          /\ \A i \in 1..Len(readLog) : frames[i].src = "replay" /\ frames[i].data = readLog[i]
          /\ \A i \in 1..Len(frames) : frames[i].src = "replay" => i <= Len(readLog)

C1_Witness ==
    /\ pc = "status_lookup"
    /\ Len(readLog) = 2
    /\ Len(frames) = 2
    /\ current_status = "unfetched"

(***************************************************************************)
(* C2. No dangling subscriptions on finished runs: when the status fetched *)
(* after the replay is not "running" (a missing row included), exactly one *)
(* terminal status frame follows the replayed frames, no subscription is   *)
(* opened, no listener task is started, and the stream ends.               *)
(***************************************************************************)
C2_NoDanglingSubscriptions ==
    current_status \notin {"unfetched", "running"} =>
        /\ Finished
        /\ Len(frames) = Len(readLog) + 1
        /\ \A i \in 1..Len(readLog) : IsFrameOf(frames[i], readLog[i])
        /\ IsSynthStatus(frames[Len(frames)])
        /\ frames[Len(frames)].data[1] \in {"completed", "failed", "stopped", "error"}
        /\ pubsub_response = None
        /\ pubsub_control = None
        /\ listener_task = None
        /\ cleanupTrace \in {<<>>, <<"sleep">>}

C2_Witness ==
    /\ current_status = None
    /\ pc = "done"
    /\ Len(frames) = 3
    /\ runStatus = "running"

(***************************************************************************)
(* C3. Terminal-event short-circuit: when a refill reads a batch whose     *)
(* first terminal status record is at 0-based position k, exactly k+1      *)
(* frames of the batch are sent, the records after it are never sent, and  *)
(* the relay ends without handling another queue item.  (A client that     *)
(* leaves while the batch is being sent receives what was sent until then.)*)
(***************************************************************************)
C3_TerminalShortCircuit ==
    LET k1 == FirstTerminal(new_responses)
    IN  k1 > 0 =>
          /\ yielded <= k1
          /\ Len(frames) = mark + yielded
          /\ \A i \in 1..yielded :
                frames[mark + i].src = "refill" /\ frames[mark + i].data = Dumps(new_responses[i])
          /\ (pc # "refill_yield" /\ exitPath # "cancelled") =>
                /\ yielded = k1
                /\ Finished
                /\ exitPath = "terminal"

C3_Witness ==
    /\ pc = "done"
    /\ exitPath = "terminal"
    /\ Len(new_responses) = 2
    /\ FirstTerminal(new_responses) = 1
    /\ yielded = 1
    /\ message_queue # <<>>


(***************************************************************************)
(* C4. Control signal terminates.  As claimed: once the relay is           *)
(* subscribed, receipt of STOP, END_STREAM or ERROR on the control channel *)
(* results in exactly one additional frame, a status frame carrying the    *)
(* signal name, then shutdown, whatever new_response notifications have    *)
(* been received.  The receipt is the listener's; runs in which a read     *)
(* fails, the listener fails or the client leaves are left aside.          *)
(***************************************************************************)
C4_Original ==
    (ctrlRecv.mark >= 0 /\ exitPath \in {"none", "terminal", "control"}) =>
        /\ Len(frames) <= ctrlRecv.mark + 1
        /\ Len(frames) = ctrlRecv.mark + 1 =>
              /\ IsSynthStatus(frames[Len(frames)])
              /\ frames[Len(frames)].data[1] = ctrlRecv.data

(***************************************************************************)
(* C4, amended.  Once the bridge loop takes the control item off the       *)
(* queue, exactly one additional frame is sent, a status frame carrying    *)
(* the name of the signal the listener received, and the relay shuts down  *)
(* without reading the log; new_response items queued before the control   *)
(* item are handled first.                                                 *)
(***************************************************************************)
C4_ControlItemTerminates ==
    /\ control_signal # None =>
          /\ exitPath = "control"
          /\ Finished
          /\ terminate_stream
          /\ ctrlRecv.data \in {"STOP", "END_STREAM", "ERROR"}
          /\ Len(frames) = mark + 1
          /\ frames[Len(frames)] =
                [src |-> "synth", data |-> <<ctrlRecv.data, 0>>, message |-> None]
    /\ exitPath = "control" => control_signal # None

C4_Witness ==
    /\ pc = "done"
    /\ exitPath = "control"
    /\ control_signal = "STOP"
    /\ Len(frames) = 2
    /\ frames[1].src = "replay"
    /\ Len(log) > last_processed_index + 1

(***************************************************************************)
(* C5. Cleanup always runs: whichever way the generator is left, every     *)
(* subscription that was opened ends unsubscribed and closed, and the      *)
(* listener task, if started, ends cancelled or completed before the       *)
(* generator finishes.                                                     *)
(***************************************************************************)
C5_CleanupAlwaysRuns ==
    pc = "done" =>
        /\ pubsub_response # None =>
              /\ pubsub_response = "closed"
              /\ InSeq("unsubscribe_response", cleanupTrace)
              /\ InSeq("close_response", cleanupTrace)
        /\ pubsub_control # None =>
              /\ pubsub_control = "closed"
              /\ InSeq("unsubscribe_control", cleanupTrace)
              /\ InSeq("close_control", cleanupTrace)
        /\ listener_task # None => listener_task \in {"cancelled", "returned"}

\* No batch is being sent, and none was cut short by the client leaving.
CursorSettled ==
    /\ pc \notin {"start", "replay_yield", "refill_yield"}
    /\ exitPath # "cancelled"

CursorIsRecordsRead == CursorSettled => last_processed_index + 1 = totalRead

(***************************************************************************)
(* C6. Monotonic cursor: the cursor (last_processed_index + 1) never       *)
(* decreases, and after the replay and after every refill it equals the    *)
(* number of log records read so far on the connection.                    *)
(***************************************************************************)
C6_MonotonicCursor ==
    /\ []CursorIsRecordsRead
    /\ [][last_processed_index' >= last_processed_index]_vars

C6_Witness ==
    /\ pc = "bridge_wait"
    /\ Len(initial_responses) = 1
    /\ Len(new_responses) = 1
    /\ totalRead = 2
    /\ last_processed_index = 1

(***************************************************************************)
(* C7. Log-order delivery: the record frames sent so far (replayed and     *)
(* refilled, the relay's own status frames left out) are a prefix of the   *)
(* Response Log: same order, no gap, no record twice.                      *)
(***************************************************************************)
C7_LogOrderDelivery ==
    /\ Len(RecordFrames) <= Len(log)
    /\ \A i \in 1..Len(RecordFrames) : RecordFrames[i].data = log[i]

C7_Witness ==
    /\ Len(RecordFrames) = 2
    /\ RecordFrames[1].src = "replay"
    /\ RecordFrames[2].src = "refill"
    /\ pc = "bridge_wait"

\* A terminal status event of the log, or a control-signal frame.
IsTerminalFrame(frame) ==
    \/ IsRecordFrame(frame) /\ frame.data[1] \in {"completed", "failed", "stopped"}
    \/ IsSynthStatus(frame) /\ frame.data[1] \in {"STOP", "END_STREAM", "ERROR"}

(***************************************************************************)
(* C8. Terminal frame is last.  As claimed: once a terminal status record  *)
(* (sent during the replay or during a refill) or a control-signal frame   *)
(* has been sent, no further frame is sent on the connection.              *)
(***************************************************************************)
C8_Original ==
    \A i \in 1..(Len(frames) - 1) : ~IsTerminalFrame(frames[i])

(***************************************************************************)
(* C8, amended.  Once a terminal status record has been sent during a      *)
(* refill, or a control-signal frame has been sent, no further frame is    *)
(* sent.  A terminal status record sent during the replay does not end the *)
(* stream: the rest of the replay and the liveness check follow it.        *)
(***************************************************************************)
C8_TerminalFrameIsLast ==
    \A i \in 1..(Len(frames) - 1) :
        ~(IsTerminalFrame(frames[i]) /\ frames[i].src # "replay")

C8_Witness ==
    /\ pc = "done"
    /\ Len(frames) = 2
    /\ frames[1].src = "replay"
    /\ frames[2].src = "refill"
    /\ IsTerminalFrame(frames[2])
    /\ Len(log) = 2
    /\ Len(message_queue) > 0


(***************************************************************************)
(* C9. Termination on run completion: for every interleaving of the worker *)
(* with one relay connection, once the run has completed (the worker has   *)
(* appended its terminal status record, announced it, stored the final     *)
(* status and published its control signal) the relay eventually           *)
(* terminates.                                                             *)
(***************************************************************************)
C9_TerminationOnCompletion == (wpc = "done") ~> (pc = "done")

\* Record i of the log is at or before the first terminal status record.
MustBeDelivered(i) ==
    /\ i <= Len(log)
    /\ FirstTerminal(LoadAll(log)) = 0 \/ i <= FirstTerminal(LoadAll(log))

(***************************************************************************)
(* C10. At-least-once delivery: every record of the log up to and          *)
(* including the first terminal status record is eventually sent on a      *)
(* connection that stays open.  Stated for a run the worker has completed, *)
(* and with every way the connection can end counted as not staying open.  *)
(***************************************************************************)
C10_AtLeastOnceDelivery ==
    \A i \in 1..MaxLog :
        (wpc = "done" /\ MustBeDelivered(i)) ~> (Len(RecordFrames) >= i \/ Finished)

\* The start-up error frame of the outer handler.
IsStartErrorFrame(frame) ==
    frame.src = "synth" /\ frame.message \in {StartErrorMessage(e) : e \in Exceptions}

\* A record of the initial read failed to decode: the list was read, and
\* nothing of it was taken as read.
ReplayDecodeFailed == exitPath = "setup_error" /\ readLog # <<>> /\ totalRead = 0

(***************************************************************************)
(* C11. Setup failure before any frame: when an exception (failed log      *)
(* read, failed status lookup, failed subscription set-up) is raised while *)
(* no frame has been sent on the connection, exactly one error status      *)
(* frame is sent and the connection ends; the client never receives an     *)
(* empty stream.                                                           *)
(***************************************************************************)
C11_SetupFailureBeforeAnyFrame ==
    (exitPath = "setup_error" /\ RecordFrames = <<>>) =>
        /\ Len(frames) = 1
        /\ IsSynthStatus(frames[1])
        /\ frames[1].data[1] = "error"

(***************************************************************************)
(* C12. No late start-up error frame.  As claimed: when an exception       *)
(* reaches the outer handler after at least one frame was sent, the case   *)
(* of a record that fails to decode part-way through the replay included,  *)
(* the "Failed to start stream" frame is not sent.                         *)
(***************************************************************************)
C12_Original ==
    (/\ exitPath = "setup_error"
     /\ \/ RecordFrames # <<>>
        \/ ReplayDecodeFailed /\ Len(readLog) >= 2) =>
        \A i \in 1..Len(frames) : ~IsStartErrorFrame(frames[i])

(***************************************************************************)
(* C12, amended.  When an exception reaches the outer handler after at     *)
(* least one frame was sent (a status lookup or a subscription set-up that *)
(* fails after a non-empty replay), no "Failed to start stream" frame is   *)
(* sent: the frames stay as they were and the finally block runs.  The     *)
(* start-up error frame is only ever the first and only frame.  A record   *)
(* that fails to decode in the replay is not such a case: the whole list   *)
(* is decoded before the first yield, so no frame has been sent and the    *)
(* start-up error frame is sent.                                           *)
(***************************************************************************)
C12_NoLateStartupError ==
    /\ \A i \in 1..Len(frames) : IsStartErrorFrame(frames[i]) => Len(frames) = 1
    /\ (exitPath = "setup_error" /\ RecordFrames # <<>>) =>
          /\ frames = RecordFrames
          /\ Len(frames) = Len(readLog)
          /\ Finished
    /\ ReplayDecodeFailed => frames = <<StartErrorFrame("JSONDecodeError")>>

C12_Witness ==
    /\ pc = "done"
    /\ exitPath = "setup_error"
    /\ Len(frames) = 2
    /\ current_status = "running"
    /\ pubsub_response = "closed"
    /\ pubsub_control = None

(***************************************************************************)
(* C14. Bridge-loop exception: when a log read or a record decode fails    *)
(* while the bridge loop handles a queue item, the relay sends one error   *)
(* status frame carrying the exception's message, terminates, and does not *)
(* read the log again.                                                     *)
(***************************************************************************)
C14_BridgeLoopException ==
    exitPath = "loop_error" =>
        /\ Finished
        /\ terminate_stream
        /\ Len(frames) = mark + 1
        /\ IsSynthStatus(frames[Len(frames)])
        /\ frames[Len(frames)].data[1] = "error"
        /\ frames[Len(frames)].message \in
              {"Stream failed: ConnectionError", "Stream failed: JSONDecodeError"}
        /\ \A i \in 1..mark : frames[i].src \in {"replay", "refill"}
        /\ totalRead = last_processed_index + 1

C14_Witness ==
    /\ pc = "done"
    /\ exitPath = "loop_error"
    /\ Len(frames) = 2
    /\ frames[1].src = "replay"
    /\ frames[2].message = "Stream failed: JSONDecodeError"
    /\ Len(log) = 2

\* An error item of the listener is waiting in the queue.
ErrorQueued == \E i \in 1..Len(message_queue) : message_queue[i].type = "error"

\* What holds in every state once the listener has failed.
ListenerFailureSurfaced ==
    /\ ErrorQueued =>
          /\ listener_task \in {"returned", "cancelled"}
          /\ message_queue[Len(message_queue)].type = "error"
          /\ \A i \in 1..(Len(message_queue) - 1) : message_queue[i].type = "new_response"
    /\ exitPath = "listener_error" =>
          /\ Finished
          /\ terminate_stream
          /\ Len(frames) = mark + 1
          /\ frames[Len(frames)] = [src |-> "synth", data |-> <<"error", 0>>, message |-> None]
          /\ listener_task = "returned"
    /\ (pc = "bridge_wait" /\ listener_task # "running") => message_queue # <<>>

\* While the generator is in its bridge loop the listener leaves its own
\* loop only after queuing a control or an error item; a task that has ended
\* is not started again and a subscription that has ended is not opened
\* again.
ListenerEndsWithItem ==
    /\ (listener_task = "running" /\ listener_task' = "returned" /\ ~terminate_stream) =>
          /\ Len(message_queue') = Len(message_queue) + 1
          /\ message_queue'[Len(message_queue')].type \in {"control", "error"}
    /\ listener_task \in {"returned", "cancelled"} => listener_task' # "running"
    /\ pubsub_response \notin {None, "subscribed"} => pubsub_response' # "subscribed"
    /\ pubsub_control \notin {None, "subscribed"} => pubsub_control' # "subscribed"

(***************************************************************************)
(* C13. Listener failure: whenever the listener task stops because a       *)
(* channel wait ended or raised, an error item is queued; the bridge loop, *)
(* on taking it off the queue, sends exactly one generic                   *)
(* {type: status, status: error} frame and terminates; nothing is retried  *)
(* or subscribed again; the bridge loop is never left waiting on an empty  *)
(* queue once the listener task has ended.  Items queued before the error  *)
(* item are handled first.                                                 *)
(***************************************************************************)
C13_ListenerFailure ==
    /\ []ListenerFailureSurfaced
    /\ [][ListenerEndsWithItem]_vars

C13_Witness ==
    /\ pc = "done"
    /\ exitPath = "listener_error"
    /\ Len(frames) = 3
    /\ frames[2].src = "refill"
    /\ cleanupTrace = CleanupOrder

\* An exception was raised inside the generator or its listener.
ExceptionRaised ==
    exitPath \in {"setup_error", "loop_error", "listener_error"} \/ escaped

\* A frame that tells the client the stream is over: a status frame made
\* up by the relay, or a terminal status record of the log.
IsClosingFrame(frame) ==
    \/ IsSynthStatus(frame)
    \/ IsRecordFrame(frame) /\ frame.data[1] \in {"completed", "failed", "stopped"}

(***************************************************************************)
(* C15. Every internal exception becomes a terminal frame: for every       *)
(* exception raised inside stream_generator, in whichever phase (replay,   *)
(* status lookup, subscription set-up, bridge loop, cleanup), the last     *)
(* frame the client receives is a terminal status frame and no exception   *)
(* leaves the generator.                                                   *)
(***************************************************************************)
C15_ExceptionBecomesTerminalFrame ==
    (pc = "done" /\ ExceptionRaised) =>
        /\ ~escaped
        /\ frames # <<>>
        /\ IsClosingFrame(frames[Len(frames)])

(***************************************************************************)
(* C16. Client disconnect: a disconnect or a cancellation at any           *)
(* suspension point of the relay sends no error frame and runs the same    *)
(* cleanup as a successful completion, leaving no open subscription.       *)
(***************************************************************************)
C16_ClientDisconnect ==
    exitPath = "cancelled" =>
        /\ \A i \in 1..Len(frames) : IsRecordFrame(frames[i])
        /\ pc = "done" =>
              /\ pubsub_response \in {None, "closed"}
              /\ pubsub_control \in {None, "closed"}
              /\ listener_task # "running"
              /\ ~escaped

\* The cursor points at most one past the last record of the log.
CursorWithinLog == last_processed_index + 1 <= Len(log)

\* The cursor moves only when a batch has been sent; a refill that ends,
\* at the end of its batch or at a terminal status record, moves the cursor
\* by the number of records it read.
RefillAdvancesByRead ==
    /\ last_processed_index' # last_processed_index =>
          pc \in {"replay_yield", "refill_yield"}
    /\ (pc = "refill_yield" /\ pc' # "refill_yield" /\ exitPath' # "cancelled") =>
          last_processed_index' = last_processed_index + Len(new_responses)

NothingNew == Len(log) <= last_processed_index + 1

\* A new_response item handled with nothing new in the log changes neither
\* the frames nor the cursor, and the bridge loop goes on waiting.
EmptyRefillIsNoOp ==
    (BridgeNewResponse /\ NothingNew) =>
        /\ frames' = frames
        /\ last_processed_index' = last_processed_index
        /\ pc' = "bridge_wait"
        /\ terminate_stream' = FALSE
        /\ totalRead' = totalRead

\* No record of the log has been sent twice.
NoRecordTwice ==
    \A i, j \in 1..Len(RecordFrames) :
        i # j => RecordFrames[i].data # RecordFrames[j].data

(***************************************************************************)
(* C20. Refill idempotence: a new_response item handled when the log holds *)
(* no record beyond the cursor sends no frame, leaves the cursor unchanged *)
(* and does not end the relay; hence several notifications for one         *)
(* appended record send that record exactly once.                          *)
(***************************************************************************)
C20_RefillIdempotence ==
    /\ [][EmptyRefillIsNoOp]_vars
    /\ []NoRecordTwice

\* A refill sent two records on the first notification, and the second
\* notification has been handled since.
C20_Witness ==
    /\ pc = "bridge_wait"
    /\ Len(frames) = 2
    /\ frames[1].src = "refill"
    /\ frames[2].src = "refill"
    /\ Len(new_responses) = 2
    /\ mark = 2
    /\ message_queue = <<>>

\* The subjects that start with "user_".
UserSubjects == {<<"u", "s", "e", "r", "_", "1">>, <<"u", "s", "e", "r", "_", "2">>}

\* The user the query token names, and the user a Bearer header names.
QueryUser ==
    IF token.present /\ token.jwt.decodable /\ token.jwt.has_sub
       /\ token.jwt.sub \in UserSubjects
    THEN token.jwt.sub ELSE NoUser

HeaderUser ==
    IF auth_header.present /\ auth_header.scheme = "Bearer"
       /\ auth_header.jwt.decodable /\ auth_header.jwt.has_sub
       /\ auth_header.jwt.sub \in UserSubjects
    THEN auth_header.jwt.sub ELSE NoUser

\* Nothing of the generator has run.
GeneratorUntouched ==
    /\ frames = <<>>
    /\ readLog = <<>>
    /\ totalRead = 0
    /\ current_status = "unfetched"
    /\ pubsub_response = None
    /\ pubsub_control = None
    /\ listener_task = None

(***************************************************************************)
(* C18. Stream authentication: the stream endpoint resolves the user from  *)
(* the query-parameter token when it decodes to a subject starting with    *)
(* "user_", otherwise from a Bearer Authorization header under the same    *)
(* condition; when neither yields a user the request fails with 401 and no *)
(* log read, status lookup or subscription is performed.                   *)
(***************************************************************************)
C18_StreamAuthentication ==
    /\ pc = "request" => GeneratorUntouched
    /\ pc # "request" =>
          /\ QueryUser # NoUser => (user_id = QueryUser /\ http_status # 401)
          /\ (QueryUser = NoUser /\ HeaderUser # NoUser) =>
                (user_id = HeaderUser /\ http_status # 401)
          /\ (QueryUser = NoUser /\ HeaderUser = NoUser) =>
                /\ http_status = 401
                /\ user_id = NoUser
                /\ pc = "rejected"
                /\ GeneratorUntouched
    /\ pc = "rejected" => GeneratorUntouched

\* Both credentials are present and decode, neither to a user; the log has
\* records to read.
C18_Witness ==
    /\ http_status = 401
    /\ pc = "rejected"
    /\ token.present
    /\ token.jwt.sub = <<"u", "s", "e", "r", "1">>
    /\ auth_header.scheme = "Bearer"
    /\ auth_header.jwt.sub = <<"o", "r", "g", "_", "1">>
    /\ Len(log) = 2

\* The record frames the second connection has sent.
OtherRecordFrames == SelectSeq(other_frames, IsRecordFrame)

\* What a connection has sent of the log is the log from its first record
\* on, whatever the other connection has read.
BothFromFirstRecord ==
    /\ Len(RecordFrames) <= Len(log)
    /\ \A i \in 1..Len(RecordFrames) : RecordFrames[i].data = log[i]
    /\ Len(OtherRecordFrames) <= Len(log)
    /\ \A i \in 1..Len(OtherRecordFrames) : OtherRecordFrames[i].data = log[i]
    /\ pc \in {"status_lookup", "subscribe_response", "subscribe_control"} =>
          Len(frames) = Len(readLog)
    /\ other_pc \in {"status_lookup", "subscribe"} =>
          Len(other_frames) = other_last_processed_index + 1

\* Only the worker's append changes the log, and it adds one record at the
\* end; a step that changes the cursor, the subscriptions or the frames of
\* one connection leaves those of the other as they are.
ConnectionsApart ==
    /\ log' # log =>
          /\ wpc = "idle" /\ wpc' = "announce"
          /\ log' = Append(log, log'[Len(log')])
          /\ UNCHANGED <<pc, last_processed_index, pubsub_response, pubsub_control,
                         frames, otherVars>>
    /\ <<other_pc, other_last_processed_index, other_pubsub, other_frames>>'
          # <<other_pc, other_last_processed_index, other_pubsub, other_frames>> =>
          UNCHANGED <<pc, last_processed_index, pubsub_response, pubsub_control,
                      listener_task, message_queue, respChan, ctrlChan, frames>>
    /\ <<pc, last_processed_index, pubsub_response, pubsub_control, frames>>'
          # <<pc, last_processed_index, pubsub_response, pubsub_control, frames>> =>
          UNCHANGED otherVars

(***************************************************************************)
(* C17. Concurrent relay instances on the same run are independent and     *)
(* non-destructive: no relay step changes the Response Log, and no step of *)
(* one relay changes another relay's cursor, subscriptions or emitted      *)
(* frames; each connection sends the log from its first record whatever    *)
(* other connections have already consumed.                                *)
(***************************************************************************)
C17_IndependentConnections ==
    /\ []BothFromFirstRecord
    /\ [][ConnectionsApart]_vars

\* The first connection got both records by refills; the second replayed
\* both from the first record on and waits in its bridge loop.
C17_Witness ==
    /\ pc = "bridge_wait"
    /\ last_processed_index = 1
    /\ Len(frames) = 2
    /\ frames[1].src = "refill"
    /\ other_pc = "bridge_wait"
    /\ Len(other_frames) = 2
    /\ other_frames[1].src = "replay"
    /\ other_frames[2].src = "replay"

(***************************************************************************)
(* Claims on the finally block, the queue and the liveness check.          *)
(***************************************************************************)
Position(step) == CHOOSE i \in 1..Len(cleanupTrace) : cleanupTrace[i] = step

\* If the later step was done, the earlier one was done before it.
StepBefore(earlier, later) ==
    InSeq(later, cleanupTrace) =>
        /\ InSeq(earlier, cleanupTrace)
        /\ Position(earlier) < Position(later)

HandleOfStep(step) ==
    IF step \in {"unsubscribe_response", "close_response"}
    THEN pubsub_response ELSE pubsub_control

(***************************************************************************)
(* C21. Cleanup order: in the finally block of stream_generator both       *)
(* channels are unsubscribed before either subscription handle is closed,  *)
(* both handles are closed before the listener task is cancelled, and the  *)
(* listener task is cancelled and awaited before the generator finishes.   *)
(* A step whose handle or task is None is skipped; the order is that of    *)
(* the steps done, and the listener is reaped whenever the block runs to   *)
(* its end.                                                                *)
(***************************************************************************)
C21_CleanupOrder ==
    pc = "done" =>
        /\ \A unsub \in {"unsubscribe_response", "unsubscribe_control"} :
           \A close \in {"close_response", "close_control"} :
              HandleOfStep(unsub) # None => StepBefore(unsub, close)
        /\ \A close \in {"close_response", "close_control"} :
              HandleOfStep(close) # None => StepBefore(close, "cancel_listener")
        /\ \A i, j \in 1..Len(cleanupTrace) :
              cleanupTrace[i] = cleanupTrace[j] => i = j
        /\ (listener_task # None /\ ~escaped) =>
              /\ InSeq("cancel_listener", cleanupTrace)
              /\ StepBefore("cancel_listener", "sleep")
              /\ InSeq("sleep", cleanupTrace)
              /\ listener_task \in {"cancelled", "returned"}

\* Both handles and a running listener: all six steps were done.
C21_Witness ==
    /\ pc = "done"
    /\ Len(cleanupTrace) = 6
    /\ pubsub_response = "closed"
    /\ pubsub_control = "closed"
    /\ listener_task = "cancelled"

\* A control or error item is the last item of the queue: the listener
\* returns after it has put one.
TerminatingItemLast ==
    /\ \A i \in 1..Len(message_queue) :
          message_queue[i].type \in {"control", "error"} => i = Len(message_queue)
    /\ exitPath \in {"control", "listener_error"} => message_queue = <<>>

\* A step that takes an item takes the oldest one and handles it as its type
\* says; a step that puts an item puts it behind the others; once the
\* control or error item was handled no item is taken.
QueueOrderKept ==
    /\ Len(message_queue') < Len(message_queue) =>
          /\ pc = "bridge_wait"
          /\ message_queue' = Tail(message_queue)
          /\ LET queue_item == Head(message_queue)
             IN  /\ queue_item.type = "new_response" =>
                       /\ control_signal' = None
                       /\ frames' # frames =>
                             /\ Len(frames') = Len(frames) + 1
                             /\ \/ frames'[Len(frames')].src = "refill"
                                \/ frames'[Len(frames')].message # None
                 /\ queue_item.type = "control" =>
                       /\ control_signal' = queue_item.data
                       /\ frames' = Append(frames, [src |-> "synth",
                                                    data |-> <<queue_item.data, 0>>,
                                                    message |-> None])
                       /\ pc' = "finally"
                 /\ queue_item.type = "error" =>
                       /\ frames' = Append(frames, [src |-> "synth",
                                                    data |-> <<"error", 0>>,
                                                    message |-> None])
                       /\ pc' = "finally"
    /\ Len(message_queue') > Len(message_queue) =>
          /\ Len(message_queue') = Len(message_queue) + 1
          /\ SubSeq(message_queue', 1, Len(message_queue)) = message_queue
    /\ exitPath \in {"control", "listener_error"} => message_queue' = message_queue

(***************************************************************************)
(* C22. FIFO bridging: the bridge loop handles queue items in the order    *)
(* the listener queued them, so new_response items queued before a control *)
(* item are refilled and forwarded before the control frame, and no item   *)
(* queued after the control or error item is ever handled.                 *)
(***************************************************************************)
C22_FifoBridging ==
    /\ []TerminatingItemLast
    /\ [][QueueOrderKept]_vars

\* The control item was queued behind a new_response item: a record was
\* forwarded by a refill after the listener had received the signal, and
\* the control frame came after it.
C22_Witness ==
    /\ exitPath = "control"
    /\ ctrlRecv.mark >= 0
    /\ Len(frames) > ctrlRecv.mark + 1
    /\ frames[Len(frames) - 1].src = "refill"
    /\ frames[Len(frames)] = [src |-> "synth", data |-> <<control_signal, 0>>,
                              message |-> None]

(***************************************************************************)
(* C27. Liveness-check frame content: the single terminal frame emitted    *)
(* when the stored run status is not "running" always carries status       *)
(* "completed", whatever the stored status is (failed, stopped, or no row  *)
(* found).                                                                 *)
(***************************************************************************)
C27_LivenessFrameContent ==
    current_status \notin {"unfetched", "running"} =>
        /\ frames # <<>>
        /\ frames[Len(frames)] = [src |-> "synth", data |-> <<"completed", 0>>,
                                  message |-> None]
        /\ \A i \in 1..(Len(frames) - 1) : IsRecordFrame(frames[i])

\* The stored status was "failed" and the frame was sent.
C27_Witness ==
    /\ current_status = "failed"
    /\ pc = "done"
    /\ frames[Len(frames)].data[1] = "completed"

(***************************************************************************)
(* Claims on the listener's channel waits.                                 *)
(***************************************************************************)
\* While the listener runs, one wait is pending on each channel.
OneWaitPerChannel ==
    listener_task = "running" =>
        \A channel \in {ResponseChannel, ControlChannel} : tasks[channel] = 1

\* The buffer of the response subscription changes by a delivery at its end
\* or by the running listener taking its first message, and a "new"
\* notification taken puts exactly one new_response item on the queue.
NotificationsQueued ==
    (respChan' # respChan /\ pc # "subscribe_response") =>
        \/ /\ Len(respChan') = Len(respChan) + 1
           /\ SubSeq(respChan', 1, Len(respChan)) = respChan
        \/ /\ respChan' = Tail(respChan)
           /\ listener_task = "running"
           /\ LET message == Head(respChan)
              IN  IF message.type = "message" /\ message.data = "new"
                  THEN message_queue' = Append(message_queue,
                                               [type |-> "new_response", data |-> None])
                  ELSE message_queue' = message_queue
           /\ ~terminate_stream =>
                 /\ listener_task' = "running"
                 /\ tasks' = tasks

(***************************************************************************)
(* C23. Listener re-arming: while the listener runs and no control signal  *)
(* or error has occurred, after every message received on a channel        *)
(* (subscription confirmations included) exactly one wait is outstanding   *)
(* on each of the two channels, so n "new" notifications published after   *)
(* the subscription yield n new_response queue items and none is lost.     *)
(***************************************************************************)
C23_ListenerRearming ==
    /\ []OneWaitPerChannel
    /\ [][NotificationsQueued]_vars

\* Both subscription confirmations and two notifications were received; the
\* two items are queued and both waits are pending again.
C23_Witness ==
    /\ listener_task = "running"
    /\ respChan = <<>>
    /\ ctrlChan = <<>>
    /\ message_queue = <<[type |-> "new_response", data |-> None],
                         [type |-> "new_response", data |-> None]>>
    /\ tasks[ResponseChannel] = 1
    /\ tasks[ControlChannel] = 1

(***************************************************************************)
(* C24. No leaked inner waits: when listen_messages has returned after     *)
(* queuing a control or error item, or was cancelled by the cleanup, every *)
(* channel wait it created has been cancelled or has completed by the time *)
(* stream_generator finishes.                                              *)
(***************************************************************************)
C24_NoLeakedInnerWaits ==
    (pc = "done" /\ listener_task \in {"returned", "cancelled"}) =>
        \A channel \in {ResponseChannel, ControlChannel} : tasks[channel] = 0

(***************************************************************************)
(* Claims on messages the listener has no branch for.                      *)
(***************************************************************************)
\* A "message" event that is neither "new" on the response channel nor a
\* lifecycle signal on the control channel.
IsUnrecognized(message) ==
    /\ message.type = "message"
    /\ ~(message.channel = "new_response" /\ message.data = "new")
    /\ ~(message.channel = "control" /\ message.data \in {"STOP", "END_STREAM", "ERROR"})

\* The listener takes the first message buffered for a channel.
Takes(chan, chanAfter) ==
    /\ listener_task = "running"
    /\ chan # <<>>
    /\ chanAfter = Tail(chan)

\* What a step does in which the listener takes an unrecognized message.
UnrecognizedIgnored ==
    \A channel \in {ResponseChannel, ControlChannel} :
        LET chan == IF channel = ResponseChannel THEN respChan ELSE ctrlChan
            chanAfter == IF channel = ResponseChannel THEN respChan' ELSE ctrlChan'
        IN  (Takes(chan, chanAfter) /\ IsUnrecognized(Head(chan))) =>
                /\ message_queue' = message_queue
                /\ frames' = frames
                /\ last_processed_index' = last_processed_index
                /\ pc' = pc
                /\ terminate_stream' = terminate_stream
                /\ control_signal' = control_signal
                /\ ~terminate_stream =>
                      /\ listener_task' = "running"
                      /\ tasks'[channel] = 1

(***************************************************************************)
(* C28. Unrecognized pub/sub messages are ignored: a message on the        *)
(* response channel whose data is not "new", or on the control channel     *)
(* whose data is not STOP, END_STREAM or ERROR, queues nothing, emits no   *)
(* frame, leaves the cursor unchanged and does not terminate the relay,    *)
(* and the listener keeps waiting on that channel.                         *)
(***************************************************************************)
C28_UnrecognizedIgnored == [][UnrecognizedIgnored]_vars

\* Two such messages were delivered and taken: nothing is queued, no frame
\* was sent, and the relay waits in its bridge loop with both waits pending.
C28_Witness ==
    /\ others_sent = 2
    /\ respChan = <<>>
    /\ ctrlChan = <<>>
    /\ listener_task = "running"
    /\ tasks = [channel \in {ResponseChannel, ControlChannel} |-> 1]
    /\ pc = "bridge_wait"
    /\ message_queue = <<>>
    /\ frames = <<>>
    /\ last_processed_index = -1

(***************************************************************************)
(* Claims on stop_agent_run and cleanup().                                 *)
(***************************************************************************)
\* The control channels of a run: the global one and that of every instance
\* holding a key for the run.
ChannelsOfRun(agent_run_id) ==
    {<<agent_run_id, "global">>} \cup
    {<<agent_run_id, key[1]>> : key \in {k \in active_runs : k[2] = agent_run_id}}

\* The call in progress has done its last step.
CallDone == stop_call # NoCall /\ Len(stopTrace) = 3

(***************************************************************************)
(* C25. Stop fan-out: stop_agent_run publishes STOP on the run's global    *)
(* control channel and on the instance control channel of every instance   *)
(* that has an active_run:{instance}:{run} key for that run; a publish     *)
(* that fails, on the global channel or on one instance channel, does not  *)
(* prevent the publishes on the remaining channels.  Every channel of the  *)
(* run either got the STOP or had its own publish fail.                    *)
(***************************************************************************)
C25_StopFanOut ==
    stop_call # NoCall =>
        /\ call_published \cap call_failed = {}
        /\ (call_published \cup call_failed) \subseteq ChannelsOfRun(stop_call.agent_run_id)
        /\ InSeq("publish_global", stopTrace) =>
              <<stop_call.agent_run_id, "global">> \in (call_published \cup call_failed)
        /\ InSeq("publish_instances", stopTrace) =>
              call_published \cup call_failed = ChannelsOfRun(stop_call.agent_run_id)

\* The publish on the global channel and the one on the channel of inst_1
\* raised; the channel of inst_2 got its STOP all the same.
C25_Witness ==
    /\ CallDone
    /\ stop_call.agent_run_id = "run_1"
    /\ call_failed = {<<"run_1", "global">>, <<"run_1", "inst_1">>}
    /\ call_published = {<<"run_1", "inst_2">>}

\* No STOP of a call goes out before the call's status write was made.
StatusBeforeSignal ==
    \A i \in DOMAIN stopTrace :
        stopTrace[i] \in {"publish_global", "publish_instances"} =>
            \E j \in 1..(i - 1) : stopTrace[j] = "update_status"

\* A lookup made after the STOP of a call whose write succeeded.
LookupAfterStop ==
    seen.after_saved_stop => seen.current_status \in {"failed", "stopped"}

\* The status column changes only by the write of the call in progress,
\* to "failed" when the call has an error message and to "stopped" otherwise.
FinalStatusWritten ==
    statuses' # statuses =>
        /\ stop_call # NoCall
        /\ update_success'
        /\ statuses' = [statuses EXCEPT ![stop_call.agent_run_id] =
                           IF stop_call.error_message THEN "failed" ELSE "stopped"]

(***************************************************************************)
(* C26. Stop ordering: stop_agent_run writes the run's final status        *)
(* ("failed" when an error message is given, otherwise "stopped") to the   *)
(* status store before it publishes any STOP signal, so a relay that makes *)
(* its status lookup after a STOP was published never sees "running" when  *)
(* the status write succeeded.                                             *)
(***************************************************************************)
C26_StopOrdering ==
    /\ [](StatusBeforeSignal /\ LookupAfterStop)
    /\ [][FinalStatusWritten]_vars

\* A relay looked up the status of a run after the STOP of a shutdown call
\* whose write had succeeded, and read "failed".
C26_Witness ==
    /\ seen.after_saved_stop
    /\ seen.current_status = "failed"
    /\ seen.agent_run_id = "run_2"

\* The calls of stop_agent_run made by cleanup().
CleanupCalls == {call \in stop_calls : call.by = "cleanup"}

\* cleanup() stops runs of this instance only, with an error message; once
\* it has closed the connection it has stopped all of them.
CleanupScope ==
    /\ \A call \in CleanupCalls :
          /\ call.error_message
          /\ <<"inst_1", call.agent_run_id>> \in active_runs
    /\ shutdown_pc = "closed" =>
          {call.agent_run_id : call \in CleanupCalls} =
          {key[2] : key \in {k \in active_runs : k[1] = "inst_1"}}

\* The status a call of cleanup() writes is "failed".
CleanupWritesFailed ==
    (stop_call.by = "cleanup" /\ statuses' # statuses) =>
        statuses' = [statuses EXCEPT ![stop_call.agent_run_id] = "failed"]

(***************************************************************************)
(* C29. Shutdown cleanup scope: cleanup() calls stop_agent_run, with a     *)
(* shutdown error message and therefore final status "failed", for exactly *)
(* the runs that have a key active_run:{this instance_id}:{run}; runs      *)
(* registered only under other instance ids are not stopped.               *)
(***************************************************************************)
C29_ShutdownScope ==
    /\ []CleanupScope
    /\ [][CleanupWritesFailed]_vars

\* run_1 is registered under this instance and run_2 under the other one:
\* after the shutdown run_1 is "failed" and run_2 is still running.
C29_Witness ==
    /\ shutdown_pc = "closed"
    /\ active_runs = {<<"inst_1", "run_1">>, <<"inst_2", "run_2">>}
    /\ statuses = [run \in Runs |-> IF run = "run_1" THEN "failed" ELSE "running"]
    /\ CleanupCalls = {[agent_run_id |-> "run_1", error_message |-> TRUE,
                        by |-> "cleanup"]}

(***************************************************************************)
(* C30. Single default agent: after any sequence, concurrent               *)
(* interleavings included, of create_agent and update_agent requests with  *)
(* is_default true for one account, at most one agent of that account has  *)
(* is_default true.                                                        *)
(***************************************************************************)
C30_SingleDefaultAgent ==
    Cardinality({agent_id \in AgentIds : agents[agent_id] = "default"}) <= 1

====
